---- MODULE Spec2Model ----
(***************************************************************************)
(* Execution sync engine of the workflow admin app                         *)
(* (app/n8n-sync.server.js, with the helpers of the n8n client it calls),  *)
(* the Softr table cache (syncSoftrData, getCachedTables and              *)
(* hasCachedData) as the Softr page's loader and action drive it, the      *)
(* record search (searchSoftrRecords, resolveFieldValue), the node          *)
(* timeline of the execution detail pages, the workflow list cache         *)
(* (getWorkflows), the route actions that append to the change log of an   *)
(* order (appendChangeLog) and the SoftrFieldValue component.              *)
(*                                                                         *)
(* JavaScript values are encoded as strings: Undef and Null stand for      *)
(* undefined and null, "n:7" for the number 7, "iso1" for an ISO timestamp *)
(* string, "date1" for the Date built from it.  An optional object is a    *)
(* sequence of length 0 (null or undefined) or 1 (the object).             *)
(***************************************************************************)
EXTENDS Integers, Sequences, FiniteSets, TLC, Bags

\* ------------------------------------------------------------------ bounds
\* Number of syncExecutions() invocations that may be in flight in the process.
NumCalls == 2
\* Wall clock (ms) when the process starts; Date.now() is far beyond the cooldown.
StartTime == 100000
\* The clock advances in steps of TickStep ms, at most MaxTicks times.
TickStep == 30000
MaxTicks == 2

\* Number of requests to the Softr page (loader or action) that may be in flight.
NumRoutes == 2
NumRequests == 2
NumFetches == 3
MaxSubmits == 2
WorkflowsTickStep == 150000
WorkflowsMaxTicks == 3

\* ------------------------------------------------------- program constants
SYNC_COOLDOWN == 60000
CACHE_TTL == 300000

\* ---------------------------------------------------------------- JS values
Undef == "undefined"
Null == "null"

\* Falsy values of the encoding: x ? a : b takes b for these.
Falsy(v) == v \in {Undef, Null, ""}

\* x ?? null, x != null
Nullish(v) == v \in {Undef, Null}

\* String(x): a number becomes its decimal text, a string is itself.
NumText == ("n:7" :> "7") @@ ("n:1001" :> "1001") @@ ("n:1002" :> "1002")
StringOf(v) == IF v \in DOMAIN NumText THEN NumText[v] ELSE v

\* new Date(x) of an ISO timestamp string
DateText == ("iso1" :> "date1") @@ ("iso2" :> "date2") @@ ("iso3" :> "date3")
                @@ ("iso4" :> "date4") @@ ("iso5" :> "date5")
DateOf(v) == IF v \in DOMAIN DateText THEN DateText[v] ELSE "Invalid Date"

\* obj?.[key] on an optional object: undefined when the object or the key is absent
Get(opt, key) ==
    IF opt = <<>> THEN Undef
    ELSE IF key \in DOMAIN opt[1] THEN opt[1][key] ELSE Undef

\* --------------------------------------------- extractFromExecutionData
\* The scans return Undef for "no match yet"; a payload value null is a match.
\* for...of over a value that is not iterable throws a TypeError, which leaves
\* every loop at once; the scans hand it up as the result TypeError.
TypeError == "TypeError"
\* A document that is null or undefined.
NullDocument == <<>>
\* A value that is neither null, undefined nor a list where the code iterates:
\* run?.data?.main or a channel holding a number or a plain object.
NotIterable(v) == <<"not iterable", v>>
IsIterable(list) == Len(list) < 2
\* runData[nodeName] that is not a list (null, a number, a plain object).
NodeNotIterable(name, v) == [name |-> name, value |-> v]

\* An item that is a primitive has no json member, like an object without one.
RECURSIVE ScanItems(_, _)
ScanItems(items, key) ==
    IF items = <<>> THEN Undef
    ELSE LET item == Head(items)
             v == IF item = <<>> THEN Undef ELSE Get(item[1].json, key)
         IN  IF v # Undef THEN v ELSE ScanItems(Tail(items), key)

RECURSIVE ScanOutputs(_, _)
ScanOutputs(outputs, key) ==
    IF outputs = <<>> THEN Undef
    ELSE LET output == Head(outputs)
             v == IF output = <<>> THEN Undef
                  ELSE IF ~IsIterable(output) THEN TypeError
                  ELSE ScanItems(output[1], key)
         IN  IF v # Undef THEN v ELSE ScanOutputs(Tail(outputs), key)

RECURSIVE ScanRuns(_, _)
ScanRuns(runs, key) ==
    IF runs = <<>> THEN Undef
    ELSE LET run == Head(runs)
             v == IF run = <<>> THEN Undef
                  ELSE IF run[1].main = <<>> THEN Undef
                  ELSE IF ~IsIterable(run[1].main) THEN TypeError
                  ELSE ScanOutputs(run[1].main[1], key)
         IN  IF v # Undef THEN v ELSE ScanRuns(Tail(runs), key)

RECURSIVE ScanNodes(_, _)
ScanNodes(nodes, key) ==
    IF nodes = <<>> THEN Undef
    ELSE LET v == IF "runs" \notin DOMAIN Head(nodes) THEN TypeError
                  ELSE ScanRuns(Head(nodes).runs, key)
         IN  IF v # Undef THEN v ELSE ScanNodes(Tail(nodes), key)

\* Variant: no catch, the TypeError leaves the helper.
Uncaught(v) == v
\* catch { return null }
CatchReturnNull(v) == IF v = TypeError THEN Null ELSE v

\* Variant: the annotation is looked at before the top-level customData.
extractAnnotationFirst(execution, key) ==
    IF execution = NullDocument THEN Null
    ELSE IF execution.annotation # <<>>
            /\ Get(execution.annotation[1].customData, key) # Undef
        THEN Get(execution.annotation[1].customData, key)
    ELSE IF Get(execution.customData, key) # Undef
        THEN Get(execution.customData, key)
    ELSE IF execution.runData = <<>> THEN Null
    ELSE LET v == CatchReturnNull(ScanNodes(execution.runData[1], key))
         IN  IF v = Undef THEN Null ELSE v

\* execution.runData is execution?.data?.resultData?.runData: <<>> when any
\* level is missing, else <<nodes>> with the nodes in Object.keys order.
\* Every lookup on a null document gives undefined, so it has no runData.
extractFromExecutionData(execution, key) ==
    IF execution = NullDocument THEN Null
    ELSE IF Get(execution.customData, key) # Undef
        THEN Get(execution.customData, key)
    ELSE IF execution.annotation # <<>>
            /\ Get(execution.annotation[1].customData, key) # Undef
        THEN Get(execution.annotation[1].customData, key)
    ELSE IF execution.runData = <<>> THEN Null
    ELSE LET v == CatchReturnNull(ScanNodes(execution.runData[1], key))
         IN  IF v = Undef THEN Null ELSE v

\* ------------------------------------------------ prisma.executionOrder.upsert
\* The create branch of the upsert: all seven columns from the payload.
CreateRow(exec) ==
    LET orderNumber == extractFromExecutionData(exec, "orderNumber")
    IN  [executionId |-> StringOf(exec.id),
         orderNumber |-> IF Nullish(orderNumber) THEN Null ELSE StringOf(orderNumber),
         workflowId  |-> StringOf(exec.workflowId),
         status      |-> exec.status,
         startedAt   |-> IF Falsy(exec.startedAt) THEN Null ELSE DateOf(exec.startedAt),
         stoppedAt   |-> IF Falsy(exec.stoppedAt) THEN Null ELSE DateOf(exec.stoppedAt),
         mode        |-> IF Nullish(exec.mode) THEN Null ELSE exec.mode]

\* Variant: the update branch writes every column, as the create branch does.
UpdateRowAll(row, exec) == CreateRow(exec)

\* Variant: the update branch does not refresh stoppedAt.
UpdateRowNoStop(row, exec) ==
    LET orderNumber == extractFromExecutionData(exec, "orderNumber")
    IN  [row EXCEPT
           !.orderNumber = IF Nullish(orderNumber) THEN Null ELSE StringOf(orderNumber),
           !.status      = exec.status]

\* The update branch of the upsert: three columns are refreshed.
UpdateRow(row, exec) ==
    LET orderNumber == extractFromExecutionData(exec, "orderNumber")
    IN  [row EXCEPT
           !.orderNumber = IF Nullish(orderNumber) THEN Null ELSE StringOf(orderNumber),
           !.status      = exec.status,
           !.stoppedAt   = IF Falsy(exec.stoppedAt) THEN Null ELSE DateOf(exec.stoppedAt)]

\* Variant: the write replaces the table by the one row written.
UpsertReplace(table, exec) ==
    [k \in DOMAIN table |-> IF k = StringOf(exec.id) THEN <<CreateRow(exec)>> ELSE <<>>]

\* One upsert keyed by executionId = String(exec.id) applied to the table.
\* The table maps each key to <<>> (no row) or <<row>>.
Upsert(table, exec) ==
    LET k == StringOf(exec.id)
    IN  [table EXCEPT ![k] = IF table[k] = <<>> THEN <<CreateRow(exec)>>
                                                ELSE <<UpdateRow(table[k][1], exec)>>]

\* The same statement on the rows the database holds: the rows whose
\* executionId is the where key are updated; without one, a row is inserted.
RECURSIVE CopiesOf(_, _)
CopiesOf(S, rows) ==
    IF S = {} THEN 0
    ELSE LET r == CHOOSE x \in S : TRUE IN CopiesIn(r, rows) + CopiesOf(S \ {r}, rows)

\* Variant: the statement inserts a row whether or not the key has one.
StoreInsert(rows, exec) == rows (+) SetToBag({CreateRow(exec)})

StoreUpsert(rows, exec) ==
    LET k == StringOf(exec.id)
        Img(r) == IF r.executionId = k THEN UpdateRow(r, exec) ELSE r
        found == {r \in BagToSet(rows) : r.executionId = k}
    IN  IF found = {} THEN rows (+) SetToBag({CreateRow(exec)})
        ELSE [t \in {Img(r) : r \in BagToSet(rows)} |->
                CopiesOf({r \in BagToSet(rows) : Img(r) = t}, rows)]

\* The rows of a table given by key.
RowsBag(table) == SetToBag({table[k][1] : k \in {j \in DOMAIN table : table[j] # <<>>}})

\* ------------------------------------------------------- remote executions
\* Executions known to the remote source, newest first: B, C, A, D.
ExecIds == {"A", "B", "C", "D"}
Statuses == {"running", "success"}

\* The payload the list endpoint returns for an execution (includeData=true).
\* What does not change while an execution runs is fixed per id.
\* A run with one output channel holding one item whose payload has the order number.
NodeItem(v) == <<[json |-> <<[orderNumber |-> v]>>]>>
NodeOutput(v) == << <<NodeItem(v)>> >>
NodeRun(v) == <<[main |-> << <<NodeOutput(v)>> >>]>>
Exec(id, status) ==
    [id         |-> id,
     status     |-> status,
     workflowId |-> IF id = "B" THEN "n:7" ELSE "w1",
     startedAt  |-> CASE id = "D" -> "iso1" [] id = "A" -> "iso2"
                      [] id = "C" -> "iso3" [] OTHER -> "iso4",
     stoppedAt  |-> IF status = "running" THEN Null ELSE "iso5",
     mode       |-> IF id = "A" THEN "webhook" ELSE IF id = "C" THEN "manual" ELSE Undef,
     customData |-> IF id = "A" THEN <<[orderNumber |-> "n:1001"]>> ELSE <<>>,
     annotation |-> IF id = "D" THEN <<[customData |-> <<[orderNumber |-> "1002"]>>]>>
                    ELSE <<>>,
     runData    |-> IF id = "B" /\ status = "success"
                        THEN << <<[name |-> "Webhook", runs |-> <<NodeRun("n:1002")>>]>> >>
                    ELSE IF id = "B" THEN << <<[name |-> "Webhook", runs |-> <<>>]>> >>
                    ELSE <<>>]

\* A page of the list endpoint: {data, nextCursor}.  data is <<>> when the
\* response has no data member, nextCursor is NoCursor when it has none.
NoCursor == 0
Page(items, next) == [data |-> <<items>>, nextCursor |-> next]
NoDataPage(next) == [data |-> <<>>, nextCursor |-> next]

\* The remote histories the model draws from; a cursor is the index of a page.
RemoteEmpty == <<>>
RemoteOnePage == <<Page(<<Exec("B", "running"), Exec("A", "success")>>, NoCursor)>>
RemoteThreePages ==
    <<Page(<<Exec("B", "success"), Exec("C", "success")>>, 2),
      Page(<<Exec("A", "success")>>, 3),
      Page(<<Exec("D", "success")>>, NoCursor)>>
RemoteOldRunning ==
    <<Page(<<Exec("B", "success")>>, 2), Page(<<Exec("A", "running")>>, NoCursor)>>
RemoteOldDone ==
    <<Page(<<Exec("B", "success")>>, 2), Page(<<Exec("A", "success")>>, NoCursor)>>
RemoteDuplicate ==
    <<Page(<<Exec("C", "running"), Exec("C", "running")>>, 2), NoDataPage(3)>>
Remotes == {RemoteEmpty, RemoteOnePage, RemoteThreePages, RemoteOldRunning,
            RemoteOldDone, RemoteDuplicate}

\* getExecutions({limit, cursor, includeData}) against the remote history r.
getExecutions(r, cur) ==
    LET idx == IF cur = NoCursor THEN 1 ELSE cur
    IN  IF idx \in DOMAIN r THEN r[idx] ELSE Page(<<>>, NoCursor)

\* response.data ?? []
DataOf(resp) == IF resp.data = <<>> THEN <<>> ELSE resp.data[1]

\* ------------------------------------------------------ Softr table cache
\* JSON.stringify(x) of an options object
JsonOf(v) == "json(" \o v \o ")"

\* The row tx.softrTable.create() writes for a fetched table (syncedAt is
\* defaulted by the database and left out).
TableRow(table) ==
    [id             |-> table.id,
     name           |-> table.name,
     description    |-> IF Nullish(table.description) THEN Null ELSE table.description,
     primaryFieldId |-> IF Nullish(table.primaryFieldId) THEN Null ELSE table.primaryFieldId,
     defaultViewId  |-> IF Nullish(table.defaultViewId) THEN Null ELSE table.defaultViewId]

\* x ?? false
OrFalse(v) == IF Nullish(v) THEN "false" ELSE v

\* Variant: the field row is created without the link to its table.
FieldRowLoose(table, field) ==
    [id                   |-> field.id,
     tableId              |-> Null   ,
     name                 |-> field.name,
     type                 |-> field.type,
     required             |-> OrFalse(field.required),
     readonly             |-> OrFalse(field.readonly),
     locked               |-> OrFalse(field.locked),
     allowMultipleEntries |-> OrFalse(field.allowMultipleEntries),
     defaultValue         |-> IF Nullish(field.defaultValue) THEN Null
                              ELSE StringOf(field.defaultValue),
     options              |-> IF Falsy(field.options) THEN Null ELSE JsonOf(field.options),
     createdAt            |-> IF Falsy(field.createdAt) THEN Null ELSE DateOf(field.createdAt),
     updatedAt            |-> IF Falsy(field.updatedAt) THEN Null ELSE DateOf(field.updatedAt)]

\* One row of the nested fields: { create: [...] }, with the table's id as tableId.
FieldRow(table, field) ==
    [id                   |-> field.id,
     tableId              |-> table.id,
     name                 |-> field.name,
     type                 |-> field.type,
     required             |-> OrFalse(field.required),
     readonly             |-> OrFalse(field.readonly),
     locked               |-> OrFalse(field.locked),
     allowMultipleEntries |-> OrFalse(field.allowMultipleEntries),
     defaultValue         |-> IF Nullish(field.defaultValue) THEN Null
                              ELSE StringOf(field.defaultValue),
     options              |-> IF Falsy(field.options) THEN Null ELSE JsonOf(field.options),
     createdAt            |-> IF Falsy(field.createdAt) THEN Null ELSE DateOf(field.createdAt),
     updatedAt            |-> IF Falsy(field.updatedAt) THEN Null ELSE DateOf(field.updatedAt)]

\* table.fields ?? []
FieldsOf(table) == IF table.fields = <<>> THEN <<>> ELSE table.fields[1]

\* Field and table payloads of the remote API.
SoftrField(id, name, type) ==
    [id |-> id, name |-> name, type |-> type,
     required             |-> IF type = "NUMBER" THEN "true" ELSE Undef,
     readonly             |-> IF type = "FORMULA" THEN "true" ELSE "false",
     locked               |-> Undef,
     allowMultipleEntries |-> Null,
     defaultValue         |-> IF type = "NUMBER" THEN "n:7" ELSE IF type = "SELECT" THEN "" ELSE Undef,
     options              |-> IF type = "SELECT" THEN "choices" ELSE Undef,
     createdAt            |-> IF type = "NUMBER" THEN "iso1" ELSE Undef,
     updatedAt            |-> IF type = "NUMBER" THEN "iso2" ELSE ""]
SoftrTable(id, name, description, fields) ==
    [id |-> id, name |-> name, description |-> description,
     primaryFieldId |-> IF fields = <<>> \/ fields[1] = <<>> THEN Undef ELSE fields[1][1].id,
     defaultViewId  |-> Null,
     fields |-> fields]

TableA == SoftrTable("tA", "Kleurstalen", "Samples",
                     << <<SoftrField("f1", "orderNumber", "SINGLE_LINE_TEXT"),
                          SoftrField("f2", "Kleur", "SELECT")>> >>)
TableB == SoftrTable("tB", "Webattelier - orders", Undef,
                     << <<SoftrField("f3", "ID", "NUMBER")>> >>)
TableC == SoftrTable("tC", "Notes", Null, <<>>)
\* tB as the remote has it after a change: another field set.
TableB2 == SoftrTable("tB", "Webattelier - orders", "Orders",
                      << <<SoftrField("f3", "ID", "FORMULA"),
                           SoftrField("f4", "Status", "SELECT")>> >>)
TableD == SoftrTable("tD", "Ne DistriService", Undef,
                     << <<SoftrField("f5", "orderNumber", "NUMBER")>> >>)
\* A table whose field has the id of a field of tA.
TableX == SoftrTable("tX", "Clash", Undef,
                     << <<SoftrField("f1", "orderNumber", "NUMBER")>> >>)

\* The remote database: the table list (data absent: <<>>) and, per table id,
\* the data of the detail response (<<>>: the response has no data).
Schema(list, tables) ==
    [list   |-> list,
     detail |-> [id \in {"tA", "tB", "tC", "tD", "tX"} |->
                    IF \E t \in tables : t.id = id
                      THEN <<CHOOSE t \in tables : t.id = id>> ELSE <<>>]]
SchemaOld == Schema(<< <<"tA", "tB", "tC">> >>, {TableA, TableB, TableC})
SchemaNew == Schema(<< <<"tA", "tB", "tD">> >>, {TableA, TableB2, TableD})
SchemaHole == Schema(<< <<"tA", "tB", "tC">> >>, {TableA, TableC})
SchemaMoved == Schema(<< <<"tD">> >>, {TableD})
SchemaClash == Schema(<< <<"tA", "tX">> >>, {TableA, TableX})
SchemaTwice == Schema(<< <<"tD", "tD">> >>, {TableD})
SchemaNoData == Schema(<<>>, {})
Schemas == {SchemaOld, SchemaNew, SchemaHole, SchemaMoved, SchemaClash, SchemaTwice,
            SchemaNoData}

\* The cache: the rows of SoftrTable and of SoftrField.
EmptyDb == [tables |-> {}, fields |-> {}]

\* process.env.SOFTR_DATABASE_ID with the remote database it names.
Env(databaseId, schema) ==
    [databaseId |-> databaseId, list |-> schema.list, detail |-> schema.detail]

\* A request that is not in flight; count is what syncSoftrData() returned.
Routes == 1..NumRoutes
NoCount == 0 - 1
IdleRun ==
    [pc |-> "idle", kind |-> "none", hasData |-> FALSE, sync |-> "none",
     failedAt |-> "none", tablesList |-> <<>>, waiting |-> {}, rejected |-> {},
     detailed |-> <<>>,
     tables |-> <<>>, created |-> 0, work |-> <<>>, count |-> NoCount,
     response |-> <<>>]

\* ------------------------------------------------------------- field values
\* A value of a Softr record field: a scalar (s: a string of the encoding
\* above), an object (o: its properties as <<key, value>> pairs in
\* Object.entries order) or an array (a: its elements).
Scalar(v) == [kind |-> "scalar", s |-> v, o |-> <<>>, a |-> <<>>]
Object(props) == [kind |-> "object", s |-> "", o |-> props, a |-> <<>>]
Array(items) == [kind |-> "array", s |-> "", o |-> <<>>, a |-> items]

\* value.key (value?.key): undefined on a scalar, an array and a missing key.
Prop(value, key) ==
    IF \E i \in DOMAIN value.o : value.o[i][1] = key
      THEN value.o[CHOOSE i \in DOMAIN value.o : value.o[i][1] = key][2]
      ELSE Scalar(Undef)

\* x != null, and x as a condition
NotNull(value) == ~(value.kind = "scalar" /\ Nullish(value.s))
Truthy(value) == ~(value.kind = "scalar" /\ value.s \in {Undef, Null, "", "n:0", "false"})

\* { url: att.url, filename: att.filename || "Download" }
Attachment(att) ==
    Object(<< <<"url", Prop(att, "url")>>,
              <<"filename", IF Truthy(Prop(att, "filename")) THEN Prop(att, "filename")
                            ELSE Scalar("Download")>> >>)

\* Variant: every value is shown as the API returned it.
resolveNothing(value) == value

resolveFieldValue(value) ==
    IF ~NotNull(value) THEN value
    ELSE IF value.kind = "object" /\ NotNull(Prop(value, "label"))
      THEN Prop(value, "label")
    ELSE IF value.kind = "array" /\ Len(value.a) > 0 /\ Truthy(Prop(value.a[1], "url"))
      THEN Array([i \in DOMAIN value.a |-> Attachment(value.a[i])])
    ELSE value

\* The field values the model draws from.
ScalarValues == {Scalar(v) : v \in {Undef, Null, "", "Rood", "n:7", "n:0", "true", "false"}}
WithProp(key, vals) == {<<>>} \cup {<< <<key, Scalar(v)>> >> : v \in vals}
ObjectValues ==
    {Object(l \o x) : l \in WithProp("label", {Null, "Rood", "", "n:0"}),
                      x \in WithProp("id", {"r1"}) \cup WithProp("url", {"u0"})}
Elements ==
    {Object(u \o f) : u \in WithProp("url", {"", "u1"}),
                      f \in WithProp("filename", {"", "a.pdf"})}
      \cup {Object(<< <<"id", Scalar("r1")>>, <<"label", Scalar("Rood")>> >>), Scalar("Rood")}
ArrayValues ==
    {Array(<<>>)} \cup {Array(<<e>>) : e \in Elements}
      \cup {Array(<<e, f>>) : e \in Elements, f \in Elements}
Values == ScalarValues \cup ObjectValues \cup ArrayValues

\* ------------------------------------------------------------ record search
\* The searchSoftrRecords() call that is not in flight.  posts are the bodies
\* of the records/search calls issued, by table id; settled is the outcome of
\* each per-table promise; result is <<>> or <<the list returned>>.
TableIds == {"tA", "tB", "tC", "tD", "tL", "tX"}
IdleSearch ==
    [pc |-> "idle", query |-> Undef, reads |-> 0, tables |-> <<>>,
     waiting |-> {}, posts |-> <<>>, settled |-> <<>>, result |-> <<>>,
     raised |-> FALSE]
\* A configured table without the configured field.
TableL == SoftrTable("tL", "Webattelier - lines", Undef,
                     << <<SoftrField("f6", "Naam", "SINGLE_LINE_TEXT")>> >>)

\* What records/search answers for a table: { data, metadata: { total } },
\* data and total each absent (<<>>) or present.  A record is { id, fields }
\* with fields keyed by field id (absent: <<>>).
RecordOne ==
    [id |-> "r1",
     fields |-> << << <<"f1", Scalar("1001")>>,
                      <<"f2", Object(<< <<"id", Scalar("c1")>>, <<"label", Scalar("Rood")>> >>)>>,
                      <<"f9", Array(<<Object(<< <<"url", Scalar("u1")>> >>)>>)>> >> >>]
RecordTwo == [id |-> "r2", fields |-> << << <<"f3", Scalar("n:1001")>> >> >>]
RecordBare == [id |-> "r3", fields |-> <<>>]
NoneFound == [data |-> << <<>> >>, total |-> <<0>>]
OneFound == [data |-> << <<RecordOne>> >>, total |-> <<1>>]
TwoOfFive == [data |-> << <<RecordTwo, RecordBare>> >>, total |-> <<5>>]
NoData == [data |-> <<>>, total |-> <<>>]
OneNoTotal == [data |-> << <<RecordTwo>> >>, total |-> <<>>]
Answers == {NoneFound, OneFound, TwoOfFive, NoData, OneNoTotal}
\* No table has records.
NoRecords == [id \in TableIds |-> NoneFound]

\* The queries the model draws from, with query.trim() and Number(query.trim()).
Queries == {Undef, Null, "", "  ", "1001", " 1001 ", "abc"}
Trim(q) == CASE q = "  " -> "" [] q = " 1001 " -> "1001" [] OTHER -> q
NumberOf(q) == IF q = "1001" THEN "n:1001" ELSE "NaN"

\* Table name -> the field names used for order search.
TABLE_SEARCH_FIELDS ==
    ("Kleurstalen" :> <<"orderNumber">>) @@ ("Ne DistriService" :> <<"orderNumber">>)
      @@ ("Webattelier - lines" :> <<"OrderID">>) @@ ("Webattelier - orders" :> <<"ID">>)
NUMBER_TYPES == {"NUMBER", "FORMULA"}

\* ------------------------------------------------------------------- state
Calls == 1..NumCalls
\* Every process instance has the module-level state of its own; there are
\* as many instances as a behaviour has calls to place in them.
Instances == Calls
CacheKeys == {StringOf(i) : i \in ExecIds}
MaxTime == StartTime + MaxTicks * TickStep

VARIABLES
    instance,         \* per call: the process instance the call is made in
    syncInProgress,   \* per instance: module-level guard flag
    lastSyncTime,     \* per instance: module-level time of the last finished pass (0: none)
    now,              \* Date.now()
    cache,            \* ExecutionOrder table by key: key -> <<>> or <<row>>
    store,            \* ExecutionOrder table as the database holds it: a bag of rows
    remote,           \* the remote execution history
    orphans,          \* upserts of a rejected Promise.all that are still in flight
    pc,               \* per call: the await it is suspended at
    mode,             \* per call: "full" or "incremental" once chosen
    cursor,           \* per call: local cursor
    response,         \* per call: last page fetched
    pending,          \* per call: upserts of the current Promise.all in flight
    result,           \* how and why the last settled invocation ended
    fetched,          \* per call: number of pages fetched by the pass
    seen,             \* per call: the items of the pages fetched by the pass
    applied,          \* per call: the items upserted by the pass, in order
    startCache,       \* per call: the table as the count of the pass saw it
    startGap,         \* per call: time from the end of the previous pass to the start
    lastEnd,          \* when the last pass ended (0: none)
    changed           \* per call: the remote history changed during the pass

\* State of the other parts of the program, which syncExecutions() never touches.
VARIABLES
    table0,           \* the ExecutionOrder table as the behaviour found it
    softrEnv,         \* SOFTR_DATABASE_ID and the tables of the remote Softr database
    softrDb,          \* SoftrTable and SoftrField as committed
    run               \* per request to the Softr page: position and locals

\* State of the record search and of the pure helpers of the pages.
VARIABLES
    search,           \* the searchSoftrRecords() call: position, locals, calls issued
    softrApi,         \* per table id: what the remote records/search endpoint answers
    arg,              \* the input a helper or a loader is applied to
    at,               \* position of the helper or loader applied to arg
    ret               \* what it returned (<<>>: nothing yet)

\* State of the route actions that write the change log of an order.
VARIABLES
    changeLog,        \* the custom.change_log metafield of the order: its entries
    stamps,           \* number of entries stamped so far (the clock of the stamps)
    req               \* per action request: position, locals and response

\* State of the in-memory workflow list cache of the n8n client.
VARIABLES
    workflowsCache,   \* module-level { data, expiresAt }; data null is <<>>
    clock,            \* Date.now() as getWorkflows reads it
    wf,               \* per getWorkflows call: position, locals and what it returned
    stores            \* the results stored so far, with the time of storing

\* State of one SoftrFieldValue component of the search page.
VARIABLES
    field,            \* its props: value and fieldId
    ui                \* mode, editValue, the fetcher and the requests submitted

shared == <<instance, syncInProgress, lastSyncTime>>
locals == <<pc, mode, cursor, response, pending>>
history == <<result, fetched, seen, applied, startCache, startGap, lastEnd, changed>>
softr == <<softrEnv, softrDb, run>>
lookup == <<search, softrApi>>
pure == <<arg, at, ret>>
audit == <<changeLog, stamps, req>>
workflows == <<workflowsCache, clock, wf, stores>>
widget == <<field, ui>>
pages == <<audit, workflows, widget>>
rest == <<table0, softr, lookup, pure, pages>>

\* The Softr page is not in use.
SoftrIdle ==
    /\ softrEnv = Env(Undef, SchemaNoData)
    /\ softrDb = EmptyDb
    /\ run = [s \in Routes |-> IdleRun]

\* No search is in flight and no helper is applied.
LookupIdle ==
    /\ search = IdleSearch
    /\ softrApi = NoRecords
PureIdle ==
    /\ arg = <<>>
    /\ at = "idle"
    /\ ret = <<>>

\* No route action is in flight and the order has no change log.
Requests == 1 .. NumRequests
NoResponse == <<>>
IdleReq ==
    [pc |-> "idle", intent |-> "none", orderGid |-> "", applied |-> FALSE,
     existing |-> <<>>, entry |-> <<>>, log |-> "none", response |-> NoResponse]
AuditIdle ==
    /\ changeLog = <<>>
    /\ stamps = 0
    /\ req = [r \in Requests |-> IdleReq]

\* No getWorkflows call was made: the cache is as the module creates it.
Fetches == 1 .. NumFetches
EmptyWorkflowsCache == [data |-> <<>>, expiresAt |-> 0]
IdleFetch ==
    [pc |-> "idle", madeAt |-> 0, known |-> {}, requests |-> 0, out |-> <<>>, failed |-> FALSE]
WorkflowsIdle ==
    /\ workflowsCache = EmptyWorkflowsCache
    /\ clock = StartTime
    /\ wf = [c \in Fetches |-> IdleFetch]
    /\ stores = {}

\* The component as it is mounted: useState("viewing"), useState(""), an idle
\* fetcher without data.
IdleFetcher == [state |-> "idle", data |-> <<>>]
Mounted == [mode |-> "viewing", editValue |-> "", fetcher |-> IdleFetcher, submitted |-> <<>>]
WidgetIdle ==
    /\ field = [value |-> Null, fieldId |-> <<>>]
    /\ ui = Mounted
PagesIdle == AuditIdle /\ WorkflowsIdle /\ WidgetIdle
vars == <<shared, now, cache, store, remote, orphans, locals, history, rest>>

EmptyCache == [k \in CacheKeys |-> <<>>]
NoPage == Page(<<>>, NoCursor)

NoGap == 0 - 1

Init ==
    /\ PagesIdle
    /\ instance = [c \in Calls |-> 1]
    /\ syncInProgress = [p \in Instances |-> FALSE]
    /\ lastSyncTime = [p \in Instances |-> 0]
    /\ now = StartTime
    /\ cache = EmptyCache
    /\ store = EmptyBag
    /\ table0 = EmptyCache
    /\ SoftrIdle
    /\ LookupIdle
    /\ PureIdle
    /\ remote \in Remotes
    /\ orphans = {}
    /\ pc = [c \in Calls |-> "idle"]
    /\ mode = [c \in Calls |-> "none"]
    /\ cursor = [c \in Calls |-> NoCursor]
    /\ response = [c \in Calls |-> NoPage]
    /\ pending = [c \in Calls |-> <<>>]
    /\ result = "none"
    /\ fetched = [c \in Calls |-> 0]
    /\ seen = [c \in Calls |-> {}]
    /\ applied = [c \in Calls |-> <<>>]
    /\ startCache = [c \in Calls |-> EmptyCache]
    /\ startGap = [c \in Calls |-> NoGap]
    /\ lastEnd = 0
    /\ changed = [c \in Calls |-> FALSE]

\* ------------------------------------------------------------ syncExecutions
Remove(seq, i) == [j \in 1..(Len(seq) - 1) |-> IF j < i THEN seq[j] ELSE seq[j + 1]]
Range(seq) == {seq[i] : i \in DOMAIN seq}

\* Variant: the guard flag is not consulted.
GuardBusyIgnored(c) == FALSE

\* if (syncInProgress) return;
GuardBusy(c) == syncInProgress[instance[c]]

\* Variant: the cooldown is compared as if it were given in seconds.
CoolingDownSeconds(c) == now - lastSyncTime[instance[c]] < 60

\* if (Date.now() - lastSyncTime < SYNC_COOLDOWN) return;
CoolingDown(c) == now - lastSyncTime[instance[c]] < SYNC_COOLDOWN

\* Both early returns: nothing but the record of the invocation changes.
NoOp(c, why) ==
    /\ result' = why
    /\ UNCHANGED <<shared, now, cache, store, remote, orphans, locals, fetched, seen,
                   applied, startCache, startGap, lastEnd, changed>>

\* syncInProgress = true; then the pass awaits prisma.executionOrder.count().
StartPass(c) ==
    /\ syncInProgress' = [syncInProgress EXCEPT ![instance[c]] = TRUE]
    /\ pc' = [pc EXCEPT ![c] = "count"]
    /\ startGap' = [startGap EXCEPT ![c] = IF lastEnd = 0 THEN NoGap ELSE now - lastEnd]
    /\ UNCHANGED <<instance, lastSyncTime, now, cache, store, remote, orphans, mode, cursor, response,
                   pending, result, fetched, seen, applied, startCache, lastEnd,
                   changed>>

\* An invocation of syncExecutions() up to its first await.
Call(c) ==
    /\ pc[c] = "idle"
    /\ IF GuardBusy(c) THEN NoOp(c, "guard")
       ELSE IF CoolingDown(c) THEN NoOp(c, "cooldown")
       ELSE StartPass(c)

\* catch (e) { console.error(...) }: every error of the try block is handled here.
Caught(failed) == TRUE

\* Variant: the flag is cleared at the end of the try block, not in finally.
ReleaseGuardInTry(failed) == failed

\* Variant: a failed pass clears the cooldown stamp.
StampTimeCleared(failed) == IF failed THEN 0 ELSE now

\* finally { syncInProgress = false; lastSyncTime = Date.now(); }
ReleaseGuard(failed) == FALSE
StampTime(failed) == now

\* The end of a pass: the loop broke (why = "complete" or "caughtup") or an
\* awaited operation rejected (why = "error"); the catch and finally blocks
\* run in the same turn, the promise of the invocation settles and the locals
\* of the pass (with what is recorded about it) are gone.
EndPass(c, why) ==
    LET failed == (why = "error")
    IN  /\ syncInProgress' = [syncInProgress EXCEPT ![instance[c]] = ReleaseGuard(failed)]
        /\ lastSyncTime' = [lastSyncTime EXCEPT ![instance[c]] = StampTime(failed)]
        /\ UNCHANGED instance
        /\ lastEnd' = now
        /\ pc' = [pc EXCEPT ![c] = "idle"]
        /\ result' = IF failed /\ ~Caught(failed) THEN "raised" ELSE why
        /\ mode' = [mode EXCEPT ![c] = "none"]
        /\ cursor' = [cursor EXCEPT ![c] = NoCursor]
        /\ response' = [response EXCEPT ![c] = NoPage]
        /\ pending' = [pending EXCEPT ![c] = <<>>]
        /\ fetched' = [fetched EXCEPT ![c] = 0]
        /\ seen' = [seen EXCEPT ![c] = {}]
        /\ applied' = [applied EXCEPT ![c] = <<>>]
        /\ startCache' = [startCache EXCEPT ![c] = EmptyCache]
        /\ startGap' = [startGap EXCEPT ![c] = NoGap]
        /\ changed' = [changed EXCEPT ![c] = FALSE]

\* const count = await prisma.executionOrder.count();
Count(table) == Cardinality({k \in DOMAIN table : table[k] # <<>>})

\* Variant: every pass is a full backfill.
SelectModeAlwaysFull(count) == "full"

\* Variant: the branches of the mode selection are swapped.
SelectModeSwapped(count) == IF count = 0 THEN "incremental" ELSE "full"

\* if (count === 0) fullBackfill() else incrementalSync()
SelectMode(count) == IF count = 0 THEN "full" ELSE "incremental"

\* The count resolves; the chosen function issues its first getExecutions().
CountDone(c) ==
    /\ pc[c] = "count"
    /\ mode' = [mode EXCEPT ![c] = SelectMode(Count(cache))]
    /\ startCache' = [startCache EXCEPT ![c] = cache]
    /\ cursor' = [cursor EXCEPT ![c] = NoCursor]
    /\ pc' = [pc EXCEPT ![c] = "fetch"]
    /\ UNCHANGED <<shared, now, cache, store, remote, orphans, response, pending, result,
                   fetched, seen, applied, startGap, lastEnd, changed>>

\* An awaited operation of the pass rejects (count, getExecutions, findMany).
AwaitFail(c) ==
    /\ pc[c] \in {"count", "fetch", "find"}
    /\ EndPass(c, "error")
    /\ UNCHANGED <<now, cache, store, remote, orphans>>

\* getExecutions() resolves.  Empty data breaks the loop; otherwise the full
\* backfill starts upsertBatch(executions) and the incremental sync findMany().
FetchDone(c) ==
    /\ pc[c] = "fetch"
    /\ LET resp == getExecutions(remote, cursor[c])
           executions == DataOf(resp)
       IN  IF Len(executions) = 0
             THEN EndPass(c, "complete")
             ELSE /\ response' = [response EXCEPT ![c] = resp]
                  /\ fetched' = [fetched EXCEPT ![c] = @ + 1]
                  /\ seen' = [seen EXCEPT ![c] = @ \cup Range(executions)]
                  /\ pc' = [pc EXCEPT ![c] = IF mode[c] = "full" THEN "upsert" ELSE "find"]
                  /\ pending' = [pending EXCEPT ![c] =
                                    IF mode[c] = "full" THEN executions ELSE <<>>]
                  /\ UNCHANGED <<shared, mode, cursor, result, applied, startCache,
                                 startGap, lastEnd, changed>>
    /\ UNCHANGED <<now, cache, store, remote, orphans>>

\* Variant: only ids without a row are synced, a changed status is not.
NeedsSyncNewOnly(table, e) == table[StringOf(e.id)] = <<>>

\* existingMap.get(String(e.id)) is undefined, or differs from e.status
NeedsSync(table, e) ==
    \/ table[StringOf(e.id)] = <<>>
    \/ table[StringOf(e.id)][1].status # e.status

\* executions.filter(...) over the rows findMany() returned
ToSync(table, executions) == SelectSeq(executions, LAMBDA e : NeedsSync(table, e))

\* Variant: the loop does not break on a page without to-sync items.
CaughtUpNever(toSync) == FALSE

\* if (toSync.length === 0) break;
CaughtUp(toSync) == Len(toSync) = 0

\* findMany() resolves: classify the page; upsert the to-sync items or stop.
FindDone(c) ==
    /\ pc[c] = "find"
    /\ LET toSync == ToSync(cache, DataOf(response[c]))
       IN  IF CaughtUp(toSync)
             THEN EndPass(c, "caughtup")
             ELSE /\ pending' = [pending EXCEPT ![c] = toSync]
                  /\ pc' = [pc EXCEPT ![c] = "upsert"]
                  /\ UNCHANGED <<shared, mode, cursor, response, result, fetched, seen,
                                 applied, startCache, startGap, lastEnd, changed>>
    /\ UNCHANGED <<now, cache, store, remote, orphans>>

\* Variant: the loop breaks after the first page with data.
LastPageAlways(resp) == TRUE

\* if (!response.nextCursor) break;
LastPage(resp) == resp.nextCursor = NoCursor

\* Variant: the batch counts as done when the first of its upserts resolves.
AnyResolved(left) == TRUE

\* await Promise.all(...): resolved when none of its upserts is left in flight.
AllResolved(left) == Len(left) = 0

\* One upsert of the Promise.all resolves.  When it was the last one,
\* upsertBatch returns and the loop goes on to the next cursor or breaks.
UpsertDone(c, i) ==
    /\ pc[c] = "upsert"
    /\ i \in DOMAIN pending[c]
    /\ cache' = Upsert(cache, pending[c][i])
    /\ store' = StoreUpsert(store, pending[c][i])
    /\ IF AllResolved(Remove(pending[c], i)) /\ LastPage(response[c])
         THEN EndPass(c, "complete")
         ELSE /\ applied' = [applied EXCEPT ![c] = Append(@, pending[c][i])]
              /\ pending' = [pending EXCEPT ![c] = Remove(@, i)]
              /\ IF ~AllResolved(Remove(pending[c], i))
                   THEN UNCHANGED <<pc, cursor>>
                   ELSE /\ cursor' = [cursor EXCEPT ![c] = response[c].nextCursor]
                        /\ pc' = [pc EXCEPT ![c] = "fetch"]
              /\ UNCHANGED <<shared, mode, response, result, fetched, seen, startCache,
                             startGap, lastEnd, changed>>
    /\ UNCHANGED <<now, remote, orphans>>

\* One upsert of the Promise.all rejects: the Promise.all rejects at once and
\* the pass ends, while the other upserts of the batch stay in flight.
UpsertFail(c, i) ==
    /\ pc[c] = "upsert"
    /\ i \in DOMAIN pending[c]
    /\ orphans' = orphans \cup Range(Remove(pending[c], i))
    /\ EndPass(c, "error")
    /\ UNCHANGED <<now, cache, store, remote>>

\* An upsert left in flight by a rejected batch resolves or rejects.
OrphanDone(e) ==
    /\ e \in orphans
    /\ orphans' = orphans \ {e}
    /\ cache' = Upsert(cache, e)
    /\ store' = StoreUpsert(store, e)
    /\ UNCHANGED <<shared, now, remote, locals, history>>

OrphanFail(e) ==
    /\ e \in orphans
    /\ orphans' = orphans \ {e}
    /\ UNCHANGED <<shared, now, cache, store, remote, locals, history>>

\* ------------------------------------------------------------- environment
\* Time passes.  An upsert in flight settles within one step of the clock.
Tick ==
    /\ now + TickStep <= MaxTime
    /\ orphans = {}
    /\ now' = now + TickStep
    /\ UNCHANGED <<shared, cache, store, remote, orphans, locals, history>>

\* The remote history changes (executions start, finish, are listed anew).
RemoteChange(r) ==
    /\ r # remote
    /\ remote' = r
    /\ changed' = [c \in Calls |-> pc[c] # "idle"]
    /\ UNCHANGED <<shared, now, cache, store, orphans, locals, result, fetched, seen,
                   applied, startCache, startGap, lastEnd>>

Next ==
    \/ \E c \in Calls : Call(c) /\ UNCHANGED rest
    \/ \E c \in Calls : CountDone(c) /\ UNCHANGED rest
    \/ \E c \in Calls : AwaitFail(c) /\ UNCHANGED rest
    \/ \E c \in Calls : FetchDone(c) /\ UNCHANGED rest
    \/ \E c \in Calls : FindDone(c) /\ UNCHANGED rest
    \/ \E c \in Calls : \E i \in 1..Len(pending[c]) : UpsertDone(c, i) /\ UNCHANGED rest
    \/ \E c \in Calls : \E i \in 1..Len(pending[c]) : UpsertFail(c, i) /\ UNCHANGED rest
    \/ \E e \in orphans : OrphanDone(e) /\ UNCHANGED rest
    \/ \E e \in orphans : OrphanFail(e) /\ UNCHANGED rest
    \/ Tick /\ UNCHANGED rest
    \/ \E r \in Remotes : RemoteChange(r) /\ UNCHANGED rest

Spec == Init /\ [][Next]_vars

\* The same program when every awaited call of a pass settles: the count,
\* getExecutions, findMany and each upsert of a batch resolve or reject.
Settles(c) ==
    /\ \/ CountDone(c)
       \/ AwaitFail(c)
       \/ FetchDone(c)
       \/ FindDone(c)
       \/ \E i \in 1..Len(pending[c]) : UpsertDone(c, i)
       \/ \E i \in 1..Len(pending[c]) : UpsertFail(c, i)
    /\ UNCHANGED rest

\* The remote history stays as it is, so that its cursor chain is one chain.
NextSettling ==
    \/ \E c \in Calls : Call(c) /\ UNCHANGED rest
    \/ \E c \in Calls : Settles(c)
    \/ \E e \in orphans : OrphanDone(e) /\ UNCHANGED rest
    \/ \E e \in orphans : OrphanFail(e) /\ UNCHANGED rest
    \/ Tick /\ UNCHANGED rest

SpecSettling == Init /\ [][NextSettling]_vars /\ \A c \in Calls : WF_vars(Settles(c))

\* ------------------------------------------------- upsertBatch on any payload
\* A second specification: one pass over a remote page of two executions
\* whose payloads are drawn freely, so that a row is created by one payload
\* and updated by another.  The page names a next cursor that has no page.
Payloads ==
    {e \in [id         : {"A"},
            status     : {"running", "success"},
            workflowId : {"w1", "n:7"},
            startedAt  : {"iso1", Undef},
            stoppedAt  : {Null, "iso5"},
            mode       : {"webhook", Undef},
            customData : {<<>>, <<[orderNumber |-> "n:1001"]>>},
            annotation : {<<>>},
            runData    : {<<>>}] :
        (e.mode = "webhook") <=> (e.workflowId = "w1")}
PayloadRemotes ==
    {<<Page(<<e1, e2>>, 2)>> : e1 \in Payloads, e2 \in Payloads \cup {Exec("B", "running")}}

InitUpsert ==
    /\ PagesIdle
    /\ instance = [c \in Calls |-> 1]
    /\ syncInProgress = [p \in Instances |-> FALSE]
    /\ lastSyncTime = [p \in Instances |-> 0]
    /\ now = StartTime
    /\ cache = EmptyCache
    /\ store = EmptyBag
    /\ table0 = EmptyCache
    /\ SoftrIdle
    /\ LookupIdle
    /\ PureIdle
    /\ remote \in PayloadRemotes
    /\ orphans = {}
    /\ pc = [c \in Calls |-> "idle"]
    /\ mode = [c \in Calls |-> "none"]
    /\ cursor = [c \in Calls |-> NoCursor]
    /\ response = [c \in Calls |-> NoPage]
    /\ pending = [c \in Calls |-> <<>>]
    /\ result = "none"
    /\ fetched = [c \in Calls |-> 0]
    /\ seen = [c \in Calls |-> {}]
    /\ applied = [c \in Calls |-> <<>>]
    /\ startCache = [c \in Calls |-> EmptyCache]
    /\ startGap = [c \in Calls |-> NoGap]
    /\ lastEnd = 0
    /\ changed = [c \in Calls |-> FALSE]

NextUpsert ==
    \/ \E c \in Calls : Call(c) /\ UNCHANGED rest
    \/ \E c \in Calls : CountDone(c) /\ UNCHANGED rest
    \/ \E c \in Calls : AwaitFail(c) /\ UNCHANGED rest
    \/ \E c \in Calls : FetchDone(c) /\ UNCHANGED rest
    \/ \E c \in Calls : \E i \in 1..Len(pending[c]) : UpsertDone(c, i) /\ UNCHANGED rest
    \/ \E c \in Calls : \E i \in 1..Len(pending[c]) : UpsertFail(c, i) /\ UNCHANGED rest
    \/ \E e \in orphans : OrphanDone(e) /\ UNCHANGED rest
    \/ \E e \in orphans : OrphanFail(e) /\ UNCHANGED rest

SpecUpsert == InitUpsert /\ [][NextUpsert]_vars

\* ------------------------------------------------- two process instances
\* A third specification: every call is made in a process instance of its
\* own, each with its own guard and stamp, against one table and a remote
\* history that does not change; no awaited operation rejects.  The table
\* is empty or holds what earlier passes left behind.
StaleCache ==
    Upsert(Upsert(Upsert(EmptyCache, Exec("B", "running")), Exec("A", "running")),
           Exec("D", "running"))

InitInstances ==
    /\ PagesIdle
    /\ instance = [c \in Calls |-> c]
    /\ syncInProgress = [p \in Instances |-> FALSE]
    /\ lastSyncTime = [p \in Instances |-> 0]
    /\ now = StartTime
    /\ cache \in {EmptyCache, StaleCache}
    /\ store = RowsBag(cache)
    /\ table0 = cache
    /\ SoftrIdle
    /\ LookupIdle
    /\ PureIdle
    /\ remote \in Remotes
    /\ orphans = {}
    /\ pc = [c \in Calls |-> "idle"]
    /\ mode = [c \in Calls |-> "none"]
    /\ cursor = [c \in Calls |-> NoCursor]
    /\ response = [c \in Calls |-> NoPage]
    /\ pending = [c \in Calls |-> <<>>]
    /\ result = "none"
    /\ fetched = [c \in Calls |-> 0]
    /\ seen = [c \in Calls |-> {}]
    /\ applied = [c \in Calls |-> <<>>]
    /\ startCache = [c \in Calls |-> EmptyCache]
    /\ startGap = [c \in Calls |-> NoGap]
    /\ lastEnd = 0
    /\ changed = [c \in Calls |-> FALSE]

NextInstances ==
    \/ \E c \in Calls : Call(c) /\ UNCHANGED rest
    \/ \E c \in Calls : CountDone(c) /\ UNCHANGED rest
    \/ \E c \in Calls : FetchDone(c) /\ UNCHANGED rest
    \/ \E c \in Calls : FindDone(c) /\ UNCHANGED rest
    \/ \E c \in Calls : \E i \in 1..Len(pending[c]) : UpsertDone(c, i) /\ UNCHANGED rest

SpecInstances == InitInstances /\ [][NextInstances]_vars

\* ------------------------------------------------- one id, several upserts
\* A fourth specification: the remote history lists an id twice on one page,
\* or on two pages of the chain; the calls are made in two process instances
\* and any awaited operation may reject.
RemoteRepeat ==
    <<Page(<<Exec("C", "running")>>, 2), Page(<<Exec("C", "success")>>, NoCursor)>>
KeyRemotes == {RemoteDuplicate, RemoteRepeat}

InitKeys ==
    /\ PagesIdle
    /\ instance = [c \in Calls |-> c]
    /\ syncInProgress = [p \in Instances |-> FALSE]
    /\ lastSyncTime = [p \in Instances |-> 0]
    /\ now = StartTime
    /\ cache = EmptyCache
    /\ store = EmptyBag
    /\ table0 = EmptyCache
    /\ SoftrIdle
    /\ LookupIdle
    /\ PureIdle
    /\ remote \in KeyRemotes
    /\ orphans = {}
    /\ pc = [c \in Calls |-> "idle"]
    /\ mode = [c \in Calls |-> "none"]
    /\ cursor = [c \in Calls |-> NoCursor]
    /\ response = [c \in Calls |-> NoPage]
    /\ pending = [c \in Calls |-> <<>>]
    /\ result = "none"
    /\ fetched = [c \in Calls |-> 0]
    /\ seen = [c \in Calls |-> {}]
    /\ applied = [c \in Calls |-> <<>>]
    /\ startCache = [c \in Calls |-> EmptyCache]
    /\ startGap = [c \in Calls |-> NoGap]
    /\ lastEnd = 0
    /\ changed = [c \in Calls |-> FALSE]

NextKeys ==
    \/ \E c \in Calls : Call(c) /\ UNCHANGED rest
    \/ \E c \in Calls : CountDone(c) /\ UNCHANGED rest
    \/ \E c \in Calls : AwaitFail(c) /\ UNCHANGED rest
    \/ \E c \in Calls : FetchDone(c) /\ UNCHANGED rest
    \/ \E c \in Calls : FindDone(c) /\ UNCHANGED rest
    \/ \E c \in Calls : \E i \in 1..Len(pending[c]) : UpsertDone(c, i) /\ UNCHANGED rest
    \/ \E c \in Calls : \E i \in 1..Len(pending[c]) : UpsertFail(c, i) /\ UNCHANGED rest
    \/ \E e \in orphans : OrphanDone(e) /\ UNCHANGED rest
    \/ \E e \in orphans : OrphanFail(e) /\ UNCHANGED rest

SpecKeys == InitKeys /\ [][NextKeys]_vars

\* -------------------------------------------------------------- Softr page
\* A fifth specification: requests to the Softr page.  The action of the
\* route calls syncSoftrData() and reads the cache; the loader does so when
\* hasCachedData() finds no table.  Each step is the code between two awaits.
syncVars == <<shared, now, cache, store, remote, orphans, locals, history, table0, lookup, pure,
              pages>>

\* getCachedTables(): the tables, each with its fields, ordered by name.
NameOrder == <<"Clash", "Kleurstalen", "Ne DistriService", "Notes", "Webattelier - lines",
               "Webattelier - orders">>
getCachedTables(db) ==
    LET names == SelectSeq(NameOrder, LAMBDA n : \E t \in db.tables : t.name = n)
    IN  [i \in 1..Len(names) |->
            LET row == CHOOSE t \in db.tables : t.name = names[i]
            IN  [table |-> row, fields |-> {f \in db.fields : f.tableId = row.id}]]

\* Variant: the cache always counts as empty.
hasNoCachedData(db) == FALSE

\* hasCachedData(): count > 0
hasCachedData(db) == Cardinality(db.tables) > 0

\* return json({ tables, error, synced }): the request is over.
Respond(r, tables, error, synced) ==
    [IdleRun EXCEPT !.response = <<[tables |-> tables, error |-> error, synced |-> synced]>>]

\* catch (e) of the route: the action reads the cache for its answer, the
\* loader answers with no tables.
Catch(r) ==
    IF r.kind = "action" THEN [r EXCEPT !.pc = "recover"]
    ELSE Respond(r, <<>>, "message", FALSE)

\* Variant: syncSoftrData() catches what is thrown inside it and returns.
SyncCatchesAll(where) == TRUE

\* syncSoftrData() has no try/catch: what is thrown inside it rejects its promise.
SyncCatches(where) == FALSE

\* An error inside syncSoftrData(): a transaction in progress is rolled back.
Raise(r, where) ==
    IF SyncCatches(where)
      THEN [r EXCEPT !.pc = "read", !.sync = "returned", !.work = <<>>, !.waiting = {}]
      ELSE Catch([r EXCEPT !.sync = "raised", !.failedAt = where, !.work = <<>>,
                           !.waiting = {}])

\* Variant: every detail response is kept.
KeepAll(detailed) == detailed

\* detailed.filter(Boolean): a detail without data (null) is dropped.
FilterBoolean(detailed) == SelectSeq(detailed, LAMBDA d : d # <<>>)

\* Variant: a rejected detail fetch counts as a table without data.
FailSoft == FALSE

\* Promise.all: the first rejected detail fetch rejects the whole.
FailFast == TRUE

\* Variant: deleteMany() leaves the rows.
DeleteNone(rows) == rows

\* tx.softrField.deleteMany(), tx.softrTable.deleteMany(): no where clause.
DeleteMany(rows) == {}

\* Variant: a statement of the transaction is written to the tables at once.
WriteThrough(db, work) == work

\* A statement issued on tx leaves what is committed as it is.
Committed(db, work) == db

\* Primary keys: SoftrTable.id, SoftrField.id.
Conflict(work, table) ==
    LET fields == FieldsOf(table)
    IN  \/ \E t \in work.tables : t.id = table.id
        \/ \E i \in DOMAIN fields : \E f \in work.fields : f.id = fields[i].id
        \/ \E i, j \in DOMAIN fields : i # j /\ fields[i].id = fields[j].id

\* The database has one writer at a time.
LockFree(s) == \A o \in Routes \ {s} : run[o].work = <<>>

\* A request arrives: the loader awaits hasCachedData(), the action calls
\* syncSoftrData().
Request(s, k) ==
    /\ run[s].pc = "idle"
    /\ run' = [run EXCEPT ![s] =
                 [IdleRun EXCEPT !.kind = k,
                                 !.pc = IF k = "loader" THEN "has" ELSE "enter",
                                 !.sync = IF k = "loader" THEN "none" ELSE "running"]]
    /\ UNCHANGED <<softrEnv, softrDb>>

\* hasCachedData() resolves: without data the loader calls syncSoftrData().
HasDone(s) ==
    /\ run[s].pc = "has"
    /\ LET h == hasCachedData(softrDb)
       IN  run' = [run EXCEPT ![s] =
                     [@ EXCEPT !.hasData = h,
                               !.pc = IF h THEN "read" ELSE "enter",
                               !.sync = IF h THEN "none" ELSE "running"]]
    /\ UNCHANGED <<softrEnv, softrDb>>

\* getDatabaseId() throws without SOFTR_DATABASE_ID; else getTables() is issued.
ConfigDone(s) ==
    /\ run[s].pc = "enter"
    /\ run' = [run EXCEPT ![s] =
                 IF Falsy(softrEnv.databaseId) THEN Raise(@, "config")
                 ELSE [@ EXCEPT !.pc = "list"]]
    /\ UNCHANGED <<softrEnv, softrDb>>

\* A read of the cache by the route rejects (hasCachedData, getCachedTables);
\* in the catch block the rejection becomes an empty list.
CacheReadFail(s) ==
    /\ run[s].pc \in {"has", "read", "recover"}
    /\ run' = [run EXCEPT ![s] =
                 IF @.pc = "recover" THEN Respond(@, <<>>, "message", FALSE)
                 ELSE Catch(@)]
    /\ UNCHANGED <<softrEnv, softrDb>>

\* All detail fetches have resolved: the transaction is started.
StartTx(r) == [r EXCEPT !.pc = "delFields", !.tables = FilterBoolean(r.detailed)]

\* getTables() resolves (result.data ?? []): one getTable() per table is issued.
ListDone(s) ==
    /\ run[s].pc = "list"
    /\ LET tablesList == IF softrEnv.list = <<>> THEN <<>> ELSE softrEnv.list[1]
       IN  run' = [run EXCEPT ![s] =
                     IF Len(tablesList) = 0 THEN StartTx(@)
                     ELSE [@ EXCEPT !.pc = "details",
                                    !.tablesList = tablesList,
                                    !.waiting = DOMAIN tablesList,
                                    !.detailed = [i \in DOMAIN tablesList |-> <<>>]]]
    /\ UNCHANGED <<softrEnv, softrDb>>

ListFail(s) ==
    /\ run[s].pc = "list"
    /\ run' = [run EXCEPT ![s] = Raise(@, "list")]
    /\ UNCHANGED <<softrEnv, softrDb>>

\* One getTable() resolves (result.data ?? null).
Settle(r, i, data) ==
    LET r2 == [r EXCEPT !.detailed[i] = data, !.waiting = @ \ {i}]
    IN  IF r2.waiting = {} THEN StartTx(r2) ELSE r2

DetailDone(s, i) ==
    /\ run[s].pc = "details"
    /\ i \in run[s].waiting
    /\ run' = [run EXCEPT ![s] = Settle(@, i, softrEnv.detail[@.tablesList[i]])]
    /\ UNCHANGED <<softrEnv, softrDb>>

\* One getTable() rejects.
DetailFail(s, i) ==
    /\ run[s].pc = "details"
    /\ i \in run[s].waiting
    /\ LET r == [run[s] EXCEPT !.rejected = @ \cup {i}]
       IN  run' = [run EXCEPT ![s] = IF FailFast THEN Raise(r, "details")
                                     ELSE Settle(r, i, <<>>)]
    /\ UNCHANGED <<softrEnv, softrDb>>

\* await tx.softrField.deleteMany()
TxDeleteFields(s) ==
    /\ run[s].pc = "delFields"
    /\ LockFree(s)
    /\ LET work == [softrDb EXCEPT !.fields = DeleteMany(@)]
       IN  /\ run' = [run EXCEPT ![s] = [@ EXCEPT !.pc = "delTables", !.work = <<work>>]]
           /\ softrDb' = Committed(softrDb, work)
    /\ UNCHANGED softrEnv

\* await tx.softrTable.deleteMany(): the fields of a deleted table go with it.
TxDeleteTables(s) ==
    /\ run[s].pc = "delTables"
    /\ LET old == run[s].work[1]
           kept == DeleteMany(old.tables)
           work == [tables |-> kept,
                    fields |-> {f \in old.fields : \E t \in kept : t.id = f.tableId}]
       IN  /\ run' = [run EXCEPT ![s] =
                        [@ EXCEPT !.work = <<work>>,
                                  !.pc = IF Len(run[s].tables) = 0 THEN "commit" ELSE "create"]]
           /\ softrDb' = Committed(softrDb, work)
    /\ UNCHANGED softrEnv

\* await tx.softrTable.create({ data: { ..., fields: { create: [...] } } })
\* for the next table; reading table.id of null or a key in use throws.
TxCreate(s) ==
    /\ run[s].pc = "create"
    /\ LET r == run[s]
           entry == r.tables[r.created + 1]
       IN  IF entry = <<>> \/ Conflict(r.work[1], entry[1])
             THEN /\ run' = [run EXCEPT ![s] = Raise(r, "tx")]
                  /\ UNCHANGED softrDb
             ELSE LET table == entry[1]
                      fields == FieldsOf(table)
                      work == [tables |-> r.work[1].tables \cup {TableRow(table)},
                               fields |-> r.work[1].fields \cup
                                            {FieldRow(table, fields[i]) : i \in DOMAIN fields}]
                  IN  /\ run' = [run EXCEPT ![s] =
                                   [r EXCEPT !.work = <<work>>,
                                             !.created = @ + 1,
                                             !.pc = IF r.created + 1 = Len(r.tables)
                                                      THEN "commit" ELSE "create"]]
                      /\ softrDb' = Committed(softrDb, work)
    /\ UNCHANGED softrEnv

\* The callback has returned: the transaction commits and syncSoftrData()
\* returns tables.length; the route awaits getCachedTables().
TxCommit(s) ==
    /\ run[s].pc = "commit"
    /\ softrDb' = run[s].work[1]
    /\ run' = [run EXCEPT ![s] =
                 [@ EXCEPT !.pc = "read", !.sync = "returned", !.work = <<>>,
                           !.count = Len(run[s].tables)]]
    /\ UNCHANGED softrEnv

\* A statement of the transaction, or its commit, rejects.
TxFail(s) ==
    /\ run[s].pc \in {"delFields", "delTables", "create", "commit"}
    /\ run' = [run EXCEPT ![s] = Raise(@, "tx")]
    /\ UNCHANGED <<softrEnv, softrDb>>

\* getCachedTables() resolves and the route answers.
ReadDone(s) ==
    /\ run[s].pc \in {"read", "recover"}
    /\ run' = [run EXCEPT ![s] =
                 IF @.pc = "recover"
                   THEN Respond(@, getCachedTables(softrDb), "message", FALSE)
                   ELSE Respond(@, getCachedTables(softrDb), Null,
                                IF @.kind = "action" THEN TRUE ELSE ~@.hasData)]
    /\ UNCHANGED <<softrEnv, softrDb>>

\* What a completed syncSoftrData() of the given tables leaves in the cache.
RECURSIVE DbOf(_)
DbOf(tables) ==
    IF tables = <<>> THEN EmptyDb
    ELSE LET before == DbOf(SubSeq(tables, 1, Len(tables) - 1))
             table == tables[Len(tables)]
             fields == FieldsOf(table)
         IN  [tables |-> before.tables \cup {TableRow(table)},
              fields |-> before.fields \cup {FieldRow(table, fields[i]) : i \in DOMAIN fields}]

\* The cache is empty or holds the three tables of an earlier sync.
OldDb == DbOf(<<TableA, TableB, TableC>>)
Envs == {Env("db1", schema) : schema \in Schemas} \cup {Env(Undef, SchemaOld)}

InitSoftr ==
    /\ PagesIdle
    /\ instance = [c \in Calls |-> 1]
    /\ syncInProgress = [p \in Instances |-> FALSE]
    /\ lastSyncTime = [p \in Instances |-> 0]
    /\ now = StartTime
    /\ cache = EmptyCache
    /\ store = EmptyBag
    /\ table0 = EmptyCache
    /\ remote = RemoteEmpty
    /\ orphans = {}
    /\ pc = [c \in Calls |-> "idle"]
    /\ mode = [c \in Calls |-> "none"]
    /\ cursor = [c \in Calls |-> NoCursor]
    /\ response = [c \in Calls |-> NoPage]
    /\ pending = [c \in Calls |-> <<>>]
    /\ result = "none"
    /\ fetched = [c \in Calls |-> 0]
    /\ seen = [c \in Calls |-> {}]
    /\ applied = [c \in Calls |-> <<>>]
    /\ startCache = [c \in Calls |-> EmptyCache]
    /\ startGap = [c \in Calls |-> NoGap]
    /\ lastEnd = 0
    /\ changed = [c \in Calls |-> FALSE]
    /\ softrEnv \in Envs
    /\ softrDb \in {EmptyDb, OldDb}
    /\ run = [s \in Routes |-> IdleRun]
    /\ LookupIdle
    /\ PureIdle

NextSoftr ==
    \/ \E s \in Routes : \E k \in {"loader", "action"} : Request(s, k) /\ UNCHANGED syncVars
    \/ \E s \in Routes : HasDone(s) /\ UNCHANGED syncVars
    \/ \E s \in Routes : ConfigDone(s) /\ UNCHANGED syncVars
    \/ \E s \in Routes : CacheReadFail(s) /\ UNCHANGED syncVars
    \/ \E s \in Routes : ListDone(s) /\ UNCHANGED syncVars
    \/ \E s \in Routes : ListFail(s) /\ UNCHANGED syncVars
    \/ \E s \in Routes : \E i \in run[s].waiting : DetailDone(s, i) /\ UNCHANGED syncVars
    \/ \E s \in Routes : \E i \in run[s].waiting : DetailFail(s, i) /\ UNCHANGED syncVars
    \/ \E s \in Routes : TxDeleteFields(s) /\ UNCHANGED syncVars
    \/ \E s \in Routes : TxDeleteTables(s) /\ UNCHANGED syncVars
    \/ \E s \in Routes : TxCreate(s) /\ UNCHANGED syncVars
    \/ \E s \in Routes : TxCommit(s) /\ UNCHANGED syncVars
    \/ \E s \in Routes : TxFail(s) /\ UNCHANGED syncVars
    \/ \E s \in Routes : ReadDone(s) /\ UNCHANGED syncVars

SpecSoftr == InitSoftr /\ [][NextSoftr]_vars

\* ---------------------------------------------------------- search loaders
\* The loader of the Softr search page and the search of the order page: a
\* blank query is answered at once; else hasCachedData(), syncSoftrData()
\* when it said false, then searchSoftrRecords(q).
SearchRequest(s, blank) ==
    /\ run[s].pc = "idle"
    /\ run' = [run EXCEPT ![s] =
                 IF blank THEN Respond(IdleRun, <<>>, Null, FALSE)
                 ELSE [IdleRun EXCEPT !.kind = "search", !.pc = "has"]]
    /\ UNCHANGED <<softrEnv, softrDb>>

\* searchSoftrRecords(q) is entered: getDatabaseId() throws into the catch of
\* the loader, else the cached tables are read and the search runs on them.
SearchStart(s) ==
    /\ run[s].pc = "read"
    /\ run[s].kind = "search"
    /\ run' = [run EXCEPT ![s] =
                 IF Falsy(softrEnv.databaseId) THEN Catch(@)
                 ELSE Respond(@, getCachedTables(softrDb), Null, FALSE)]
    /\ UNCHANGED <<softrEnv, softrDb>>

NextLoaders ==
    \/ \E s \in Routes : Request(s, "loader") /\ UNCHANGED syncVars
    \/ \E s \in Routes : \E blank \in BOOLEAN : SearchRequest(s, blank) /\ UNCHANGED syncVars
    \/ \E s \in Routes : HasDone(s) /\ UNCHANGED syncVars
    \/ \E s \in Routes : ConfigDone(s) /\ UNCHANGED syncVars
    \/ \E s \in Routes : CacheReadFail(s) /\ UNCHANGED syncVars
    \/ \E s \in Routes : ListDone(s) /\ UNCHANGED syncVars
    \/ \E s \in Routes : ListFail(s) /\ UNCHANGED syncVars
    \/ \E s \in Routes : \E i \in run[s].waiting : DetailDone(s, i) /\ UNCHANGED syncVars
    \/ \E s \in Routes : \E i \in run[s].waiting : DetailFail(s, i) /\ UNCHANGED syncVars
    \/ \E s \in Routes : TxDeleteFields(s) /\ UNCHANGED syncVars
    \/ \E s \in Routes : TxDeleteTables(s) /\ UNCHANGED syncVars
    \/ \E s \in Routes : TxCreate(s) /\ UNCHANGED syncVars
    \/ \E s \in Routes : TxCommit(s) /\ UNCHANGED syncVars
    \/ \E s \in Routes : TxFail(s) /\ UNCHANGED syncVars
    \/ \E s \in Routes : run[s].kind = "loader" /\ ReadDone(s) /\ UNCHANGED syncVars
    \/ \E s \in Routes : SearchStart(s) /\ UNCHANGED syncVars

SpecLoaders == InitSoftr /\ [][NextLoaders]_vars

\* ------------------------------------------------------------------ helpers
\* syncExecutions() is not in use.
SyncIdle ==
    /\ instance = [c \in Calls |-> 1]
    /\ syncInProgress = [p \in Instances |-> FALSE]
    /\ lastSyncTime = [p \in Instances |-> 0]
    /\ now = StartTime
    /\ cache = EmptyCache
    /\ store = EmptyBag
    /\ table0 = EmptyCache
    /\ remote = RemoteEmpty
    /\ orphans = {}
    /\ pc = [c \in Calls |-> "idle"]
    /\ mode = [c \in Calls |-> "none"]
    /\ cursor = [c \in Calls |-> NoCursor]
    /\ response = [c \in Calls |-> NoPage]
    /\ pending = [c \in Calls |-> <<>>]
    /\ result = "none"
    /\ fetched = [c \in Calls |-> 0]
    /\ seen = [c \in Calls |-> {}]
    /\ applied = [c \in Calls |-> <<>>]
    /\ startCache = [c \in Calls |-> EmptyCache]
    /\ startGap = [c \in Calls |-> NoGap]
    /\ lastEnd = 0
    /\ changed = [c \in Calls |-> FALSE]
notPure == <<shared, now, cache, store, remote, orphans, locals, history, table0, softr, lookup,
             pages>>

\* ------------------------------------------------------------ node timeline
\* A run of a node: { startTime, executionTime, error, data: { main } }.  A
\* number or an object that may be missing is <<>> or <<it>>; main is the
\* list of output channels, a channel is null (<<>>) or <<its items>>, an
\* item is null (<<>>) or <<[json |-> <<>> or <<payload>>]>>.
Item(payload) == <<[json |-> <<payload>>]>>
NoJson == <<[json |-> <<>>]>>
Channel(items) == <<items>>
Main(channels) == <<channels>>
Run(startTime, executionTime, error, main) ==
    <<[startTime |-> startTime, executionTime |-> executionTime, error |-> error,
       main |-> main]>>
PayA == [orderNumber |-> "n:1001"]
PayB == [orderNumber |-> "1002", email |-> "a@b.nl"]
PayC == [email |-> Null]

\* The run lists the model draws from.
RunFast == Run(<<100>>, <<5>>, <<>>, Main(<<Channel(<<Item(PayA)>>)>>))
RunSlow == Run(<<300>>, <<40>>, <<>>,
               Main(<<Channel(<<Item(PayC), Item(PayB)>>), Channel(<<Item(PayA)>>)>>))
RunFailed == Run(<<200>>, <<1>>, <<[message |-> <<"timeout">>]>>, <<>>)
RunBare == Run(<<>>, <<>>, <<[message |-> <<>>]>>,
               Main(<<<<>>, Channel(<<NoJson, <<>>, Item(PayC)>>)>>))
RunEmpty == Run(<<250>>, <<2>>, <<>>, Main(<<<<>>, Channel(<<NoJson>>)>>))
RunLists ==
    {<<>>, <<RunFast>>, <<RunSlow>>, <<RunFailed, RunFast>>, <<RunSlow, RunBare>>,
     <<RunFast, RunFailed>>, <<RunFast, RunEmpty>>}

\* The execution document: workflowData.nodes and data.resultData.runData
\* (each <<>> when a level is missing), customData and annotation.  runData
\* holds the node names that have a key, in Object.keys order.
WorkflowNodes ==
    <<[name |-> "Webhook", type |-> <<"n8n-nodes-base.webhook">>],
      [name |-> "Set", type |-> <<"set">>],
      [name |-> "Mail", type |-> <<>>]>>
Document(nodes, runData, customData, annotation) ==
    [workflowNodes |-> nodes, runData |-> runData, customData |-> customData,
     annotation |-> annotation]
\* runData without a key for the second node, and with every node keyed.
RunData(a, c) == << <<[name |-> "Mail", runs |-> c], [name |-> "Webhook", runs |-> a]>> >>
RunDataAll(a, b, c) ==
    << <<[name |-> "Mail", runs |-> c], [name |-> "Set", runs |-> b],
         [name |-> "Webhook", runs |-> a]>> >>
Documents ==
    {Document(<<WorkflowNodes>>, RunDataAll(a, b, c), <<>>, <<>>) :
        a \in RunLists, b \in RunLists, c \in RunLists}
      \cup {Document(<<WorkflowNodes>>, RunData(a, c), <<>>, <<>>) :
        a \in RunLists, c \in RunLists}
      \cup {Document(<<WorkflowNodes>>, <<>>, <<>>, <<>>),
            Document(<<>>, RunData(<<RunFast>>, <<RunSlow>>), <<>>, <<>>)}

\* runData[node.name]: <<>> when the map has no such key, else <<the run list>>.
RunsOf(runData, name) ==
    IF runData = <<>> THEN <<>>
    ELSE LET hit == SelectSeq(runData[1], LAMBDA e : e.name = name)
         IN  IF hit = <<>> THEN <<>> ELSE <<hit[1].runs>>

\* node.type?.split(".").pop() ?? node.type
TypeTail(type) ==
    IF type = <<>> THEN <<>>
    ELSE IF type[1] = "n8n-nodes-base.webhook" THEN <<"webhook">> ELSE type

\* main.flat(): the items of the channels that are lists, a null channel as
\* one null entry.
RECURSIVE Flat(_)
Flat(main) ==
    IF main = <<>> THEN <<>>
    ELSE (IF Head(main) = <<>> THEN << <<>> >> ELSE Head(main)[1]) \o Flat(Tail(main))

\* .map((item) => item?.json).filter(Boolean)
JsonOfItems(items) ==
    LET json == [i \in DOMAIN items |-> IF items[i] = <<>> THEN <<>> ELSE items[i][1].json]
        kept == SelectSeq(json, LAMBDA j : j # <<>>)
    IN  [i \in DOMAIN kept |-> kept[i][1]]

\* Variant: the output is the list, whatever its length.
KeepList(output) == [shape |-> "list", items |-> output]
\* output.length === 1 ? output[0] : output.length > 0 ? output : null
Unwrap(output) ==
    IF Len(output) = 1 THEN [shape |-> "single", items |-> output]
    ELSE IF Len(output) > 0 THEN [shape |-> "list", items |-> output]
    ELSE [shape |-> "null", items |-> <<>>]

\* Variant: the first run of the list is taken.
FirstRun(runs) == runs[1]
\* runs[runs.length - 1]
LastRun(runs) == runs[Len(runs)]

\* The summary of a workflow node.
NodeSummary(node, runData) ==
    LET runs == RunsOf(runData, node.name)
        ran == runs # <<>> /\ Len(runs[1]) > 0
        lastRun == IF ran THEN LastRun(runs[1]) ELSE <<>>
        output == IF lastRun = <<>> \/ lastRun[1].main = <<>> THEN <<>>
                  ELSE JsonOfItems(Flat(lastRun[1].main[1]))
    IN  [name |-> node.name,
         type |-> TypeTail(node.type),
         ran |-> ran,
         startTime |-> IF lastRun = <<>> THEN <<>> ELSE lastRun[1].startTime,
         executionTime |-> IF lastRun = <<>> THEN <<>> ELSE lastRun[1].executionTime,
         error |-> IF lastRun = <<>> \/ lastRun[1].error = <<>> THEN <<>>
                   ELSE lastRun[1].error[1].message,
         output |-> Unwrap(output)]

\* a.startTime ?? 0
StartKey(n) == IF n.startTime = <<>> THEN 0 ELSE n.startTime[1]

\* Variant: the nodes stay in workflow order.
Unsorted(nodes) == nodes
\* nodes.sort((a, b) => (a.startTime ?? 0) - (b.startTime ?? 0)); the sort is stable.
RECURSIVE SortByStart(_)
SortByStart(nodes) ==
    IF nodes = <<>> THEN <<>>
    ELSE LET sorted == SortByStart(SubSeq(nodes, 1, Len(nodes) - 1))
             x == nodes[Len(nodes)]
             before == SelectSeq(sorted, LAMBDA n : StartKey(n) <= StartKey(x))
             after == SelectSeq(sorted, LAMBDA n : StartKey(n) > StartKey(x))
         IN  before \o <<x>> \o after

\* The node list of the loader and of getExecutionDetail().
ranNodes(execution) ==
    LET workflowNodes == IF execution.workflowNodes = <<>> THEN <<>>
                         ELSE execution.workflowNodes[1]
        nodes == [i \in DOMAIN workflowNodes |->
                    NodeSummary(workflowNodes[i], execution.runData)]
    IN  SortByStart(SelectSeq(nodes, LAMBDA n : n.ran))

\* The loader of the execution detail page: without an id it answers at
\* once, else it awaits getExecution().
DetailRequest(hasId) ==
    /\ at = "idle"
    /\ at' = IF hasId THEN "fetch" ELSE "done"
    /\ ret' = IF hasId THEN <<>> ELSE <<[nodes |-> <<>>, error |-> Undef]>>
    /\ UNCHANGED arg

\* getExecution() resolves with the document.
DetailFetched ==
    /\ at = "fetch"
    /\ at' = "done"
    /\ ret' = <<[nodes |-> ranNodes(arg), error |-> Undef]>>
    /\ UNCHANGED arg

\* getExecution() rejects.
DetailFailed ==
    /\ at = "fetch"
    /\ at' = "done"
    /\ ret' = <<[nodes |-> <<>>, error |-> "message"]>>
    /\ UNCHANGED arg

InitTimeline ==
    /\ PagesIdle
    /\ SyncIdle
    /\ SoftrIdle
    /\ LookupIdle
    /\ arg \in Documents
    /\ at = "idle"
    /\ ret = <<>>

NextTimeline ==
    \/ \E hasId \in BOOLEAN : DetailRequest(hasId) /\ UNCHANGED notPure
    \/ DetailFetched /\ UNCHANGED notPure
    \/ DetailFailed /\ UNCHANGED notPure

SpecTimeline == InitTimeline /\ [][NextTimeline]_vars

\* ------------------------------------------------- extractFromExecutionData
\* The documents and keys the helper is applied to.
CustomDatas ==
    {<<>>, <<[email |-> "c@d.nl"]>>, <<[orderNumber |-> "n:1001"]>>,
     <<[orderNumber |-> Null, email |-> "c@d.nl"]>>}
Annotations ==
    {<<>>, <<[customData |-> <<>>]>>, <<[customData |-> <<[orderNumber |-> "1003"]>>]>>}
ScannedRuns == {<<>>, <<RunFast>>, <<RunSlow, RunBare>>, <<RunFailed, RunSlow>>}
ExtractKeys == {"orderNumber", "email", "phone"}
\* Run lists with a part of unexpected type: main or a channel that is not a
\* list, before and after a well-formed item, and items that are primitives.
RunMainOther == Run(<<100>>, <<5>>, <<>>, NotIterable("n:7"))
RunChannelOther == Run(<<100>>, <<5>>, <<>>, Main(<<NotIterable("n:7")>>))
RunChannelLate ==
    Run(<<100>>, <<5>>, <<>>, Main(<<Channel(<<Item(PayB)>>), NotIterable("n:7")>>))
RunItemsOther == Run(<<100>>, <<5>>, <<>>, Main(<<Channel(<<NoJson, <<>>, NoJson>>)>>))
IllRuns ==
    {<<RunMainOther>>, <<RunChannelOther>>, <<RunChannelLate>>, <<RunItemsOther>>,
     <<RunFast, RunMainOther>>, <<RunFailed, RunChannelOther, RunSlow>>}
\* runData whose first or second node has no run list.
IllRunData ==
    {RunData(x, y) : x \in IllRuns, y \in ScannedRuns}
      \cup {RunData(x, y) : x \in ScannedRuns, y \in IllRuns}
      \cup {<< <<NodeNotIterable("Mail", Null), [name |-> "Webhook", runs |-> x]>> >> :
                x \in ScannedRuns}
      \cup {<< <<[name |-> "Mail", runs |-> x], NodeNotIterable("Webhook", "n:7")>> >> :
                x \in ScannedRuns}
ExtractInputs ==
    {[doc |-> Document(<<>>, r, c, a), key |-> k] :
        r \in {<<>>} \cup {RunData(x, y) : x \in ScannedRuns, y \in ScannedRuns},
        c \in CustomDatas, a \in Annotations, k \in ExtractKeys}
\* The documents of unexpected shape, the null document among them.
IllInputs ==
    {[doc |-> Document(<<>>, r, c, a), key |-> k] :
        r \in IllRunData, c \in CustomDatas, a \in Annotations, k \in ExtractKeys}
      \cup {[doc |-> NullDocument, key |-> k] : k \in ExtractKeys}

\* extractFromExecutionData(doc, key) is called.
Extract ==
    /\ at = "idle"
    /\ at' = "done"
    /\ ret' = <<extractFromExecutionData(arg.doc, arg.key)>>
    /\ UNCHANGED arg

InitExtract ==
    /\ PagesIdle
    /\ SyncIdle
    /\ SoftrIdle
    /\ LookupIdle
    /\ arg \in ExtractInputs \cup IllInputs
    /\ at = "idle"
    /\ ret = <<>>

NextExtract == Extract /\ UNCHANGED notPure

SpecExtract == InitExtract /\ [][NextExtract]_vars

\* ------------------------------------------------------ searchSoftrRecords
\* A cache with a configured table that lacks its search field.
SearchDb == DbOf(<<TableA, TableB, TableC, TableL, TableD>>)

\* tables.filter((t) => TABLE_SEARCH_FIELDS[t.name])
Searchable(t) == t.table.name \in DOMAIN TABLE_SEARCH_FIELDS
\* table.fields.filter((f) => fieldNames.includes(f.name))
SearchableFields(t) ==
    LET fieldNames == TABLE_SEARCH_FIELDS[t.table.name]
    IN  {f \in t.fields : \E i \in DOMAIN fieldNames : fieldNames[i] = f.name}

\* Variant: a table is searched whether or not it has a search field.
AlwaysEligible(t) == TRUE
\* searchableFields.length === 0 is the early return of the per-table task.
Eligible(t) == SearchableFields(t) # {}

\* The body of the records/search call for a table: one IS condition per
\* search field, combined by OR when there are several.
Body(t, query, limit) ==
    LET conditions ==
            {[leftSide |-> f.id, operator |-> "IS",
              rightSide |-> IF f.type \in NUMBER_TYPES THEN NumberOf(Trim(query))
                            ELSE Trim(query)] : f \in SearchableFields(t)}
        condition == IF Cardinality(conditions) = 1 THEN CHOOSE c \in conditions : TRUE
                     ELSE [operator |-> "OR", conditions |-> conditions]
    IN  [filter |-> [condition |-> condition], paging |-> [offset |-> 0, limit |-> limit]]

\* fields[name] = value on an object given by its entries.
Put(entries, name, value) ==
    IF \E i \in DOMAIN entries : entries[i][1] = name
      THEN [i \in DOMAIN entries |-> IF entries[i][1] = name THEN <<name, value>>
                                     ELSE entries[i]]
      ELSE Append(entries, <<name, value>>)

\* The fields of a record keyed by field name (by id for an unknown id),
\* each value resolved for display.
RECURSIVE NamedFields(_, _)
NamedFields(t, entries) ==
    IF entries = <<>> THEN <<>>
    ELSE LET last == entries[Len(entries)]
             fieldId == last[1]
             name == IF \E f \in t.fields : f.id = fieldId
                       THEN (CHOOSE f \in t.fields : f.id = fieldId).name
                       ELSE fieldId
         IN  Put(NamedFields(t, SubSeq(entries, 1, Len(entries) - 1)), name,
                 resolveFieldValue(last[2]))

\* What the per-table task returns once its call has answered.
Group(t, answer) ==
    LET data == IF answer.data = <<>> THEN <<>> ELSE answer.data[1]
        records == [i \in DOMAIN data |->
                      [id |-> data[i].id,
                       fields |-> NamedFields(t, IF data[i].fields = <<>> THEN <<>>
                                                 ELSE data[i].fields[1])]]
    IN  [tableId |-> t.table.id, tableName |-> t.table.name, records |-> records,
         total |-> IF answer.total = <<>> THEN Len(records) ELSE answer.total[1]]

Pending == [status |-> "pending", value |-> <<>>]
Fulfilled(value) == [status |-> "fulfilled", value |-> value]
Rejected == [status |-> "rejected", value |-> <<>>]

\* Variant: one rejected task rejects the whole (Promise.all).
FirstRejectionWins(settled) ==
    LET kept == SelectSeq(settled, LAMBDA r : /\ r.status = "fulfilled"
                                              /\ r.value # <<>>
                                              /\ Len(r.value[1].records) > 0)
    IN  IF \E i \in DOMAIN settled : settled[i].status = "rejected" THEN <<>>
        ELSE <<[i \in DOMAIN kept |-> kept[i].value[1]]>>

\* Variant: every fulfilled task with a group is returned, records or not.
KeepEmpty(settled) ==
    LET kept == SelectSeq(settled, LAMBDA r : r.status = "fulfilled" /\ r.value # <<>>)
    IN  <<[i \in DOMAIN kept |-> kept[i].value[1]]>>

\* settled.filter(fulfilled, value, records.length > 0).map(value); <<>> is a
\* rejection of the whole.
Returned(settled) ==
    LET kept == SelectSeq(settled, LAMBDA r : /\ r.status = "fulfilled"
                                              /\ r.value # <<>>
                                              /\ Len(r.value[1].records) > 0)
    IN  <<[i \in DOMAIN kept |-> kept[i].value[1]]>>

\* Variant: a blank query is searched like any other.
BlankIgnored(query) == FALSE
\* !query || !query.trim()
Blank(query) == Falsy(query) \/ Trim(query) = ""

\* Variant: an empty cache does not end the search.
NoTablesIgnored(tables) == FALSE
\* tables.length === 0
NoTables(tables) == Len(tables) = 0

\* searchSoftrRecords(query) up to its first await: the early return on a
\* blank query, getDatabaseId(), and the start of the cache read.
Search(query) ==
    /\ search.pc = "idle"
    /\ search' =
         IF Blank(query)
           THEN [IdleSearch EXCEPT !.pc = "done", !.query = query, !.result = << <<>> >>]
         ELSE IF Falsy(softrEnv.databaseId)
           THEN [IdleSearch EXCEPT !.pc = "done", !.query = query, !.raised = TRUE]
         ELSE [IdleSearch EXCEPT !.pc = "read", !.query = query, !.reads = 1]
    /\ UNCHANGED <<softrDb, softrApi>>

\* getCachedTables() rejects, and so does the search.
SearchReadFail ==
    /\ search.pc = "read"
    /\ search' = [search EXCEPT !.pc = "done", !.raised = TRUE]
    /\ UNCHANGED <<softrDb, softrApi>>

\* getCachedTables() resolves: without tables the search returns; else every
\* per-table task runs up to its await, issuing its call, and the search
\* awaits Promise.allSettled.
SearchRead ==
    /\ search.pc = "read"
    /\ LET tables == getCachedTables(softrDb)
           searchableTables == SelectSeq(tables, Searchable)
           called == {i \in DOMAIN searchableTables : Eligible(searchableTables[i])}
           bodies == [i \in DOMAIN searchableTables |->
                        [tableId |-> searchableTables[i].table.id,
                         body |-> Body(searchableTables[i], search.query, 10)]]
       IN  search' =
             IF NoTables(tables)
               THEN [search EXCEPT !.pc = "done", !.result = << <<>> >>]
               ELSE [search EXCEPT
                       !.pc = "fan",
                       !.tables = searchableTables,
                       !.waiting = called,
                       !.posts = SelectSeq(bodies, LAMBDA b :
                                    \E i \in called : searchableTables[i].table.id = b.tableId),
                       !.settled = [i \in DOMAIN searchableTables |->
                                      IF i \in called THEN Pending ELSE Fulfilled(<<>>)]]
    /\ UNCHANGED <<softrDb, softrApi>>

\* The records/search call of task i answers.
PostDone(i) ==
    /\ search.pc = "fan"
    /\ i \in search.waiting
    /\ search' = [search EXCEPT
                    !.waiting = @ \ {i},
                    !.settled[i] = Fulfilled(<<Group(search.tables[i],
                                                     softrApi[search.tables[i].table.id])>>)]
    /\ UNCHANGED <<softrDb, softrApi>>

\* The records/search call of task i fails (no answer, or a status not ok).
PostFail(i) ==
    /\ search.pc = "fan"
    /\ i \in search.waiting
    /\ search' = [search EXCEPT !.waiting = @ \ {i}, !.settled[i] = Rejected]
    /\ UNCHANGED <<softrDb, softrApi>>

\* Every task has settled: the search returns the groups with records.
SearchReturn ==
    /\ search.pc = "fan"
    /\ search.waiting = {}
    /\ LET out == Returned(search.settled)
       IN  search' = [search EXCEPT !.pc = "done",
                                    !.result = out,
                                    !.raised = (out = <<>>)]
    /\ UNCHANGED <<softrDb, softrApi>>

notSearch == <<shared, now, cache, store, remote, orphans, locals, history, table0,
               softrEnv, run, pure, pages>>

InitSearch ==
    /\ PagesIdle
    /\ SyncIdle
    /\ PureIdle
    /\ softrEnv \in {Env("db1", SchemaOld), Env(Undef, SchemaOld)}
    /\ softrDb \in {EmptyDb, OldDb, SearchDb}
    /\ run = [s \in Routes |-> IdleRun]
    /\ search = IdleSearch
    /\ softrApi \in {[id \in TableIds |-> CASE id = "tA" -> a [] id = "tB" -> b
                                                [] OTHER -> NoneFound] :
                        a \in Answers, b \in Answers}

NextSearch ==
    \/ \E query \in Queries : Search(query) /\ UNCHANGED notSearch
    \/ SearchReadFail /\ UNCHANGED notSearch
    \/ SearchRead /\ UNCHANGED notSearch
    \/ \E i \in search.waiting : PostDone(i) /\ UNCHANGED notSearch
    \/ \E i \in search.waiting : PostFail(i) /\ UNCHANGED notSearch
    \/ SearchReturn /\ UNCHANGED notSearch

SpecSearch == InitSearch /\ [][NextSearch]_vars

\* resolveFieldValue(value) applied to a field value of a record.
Resolve ==
    /\ at = "idle"
    /\ at' = "done"
    /\ ret' = <<resolveFieldValue(arg)>>
    /\ UNCHANGED arg

InitResolve ==
    /\ PagesIdle
    /\ SyncIdle
    /\ SoftrIdle
    /\ LookupIdle
    /\ arg \in Values
    /\ at = "idle"
    /\ ret = <<>>

NextResolve == Resolve /\ UNCHANGED notPure

SpecResolve == InitResolve /\ [][NextResolve]_vars

\* ------------------------------------------ route actions and appendChangeLog
\* The actions of the Softr search page (update and delete of a record) and of
\* the execution detail page (resend of an order), each followed by
\* appendChangeLog(admin, orderGid, entry) inside the same try block.
notAudit == <<shared, now, cache, store, remote, orphans, locals, history, table0, softr, lookup,
              pure, workflows, widget>>
Intents == {"update", "delete", "resend"}
OrderGids == {"", "gid1"}
\* json(body, {status}); the status is 200 when none is given.
Json(ok, status) == <<[ok |-> ok, status |-> status]>>
\* The entry a caller hands over; request stands for the record and field data.
EntryOf(intent, r) ==
    [action |-> CASE intent = "update" -> "softr_field_update"
                  [] intent = "delete" -> "softr_record_delete"
                  [] OTHER -> "order_resend",
     request |-> r]
\* { ...entry, timestamp: new Date().toISOString() }
Stamped(entry, t) == [action |-> entry.action, request |-> entry.request, timestamp |-> t]
\* An entry written before the behaviour starts.
OldEntry == [action |-> "order_resend", request |-> 0, timestamp |-> 0]

Answer(r, ok, status) ==
    req' = [req EXCEPT ![r].pc = "done", ![r].response = Json(ok, status)]

\* The action is entered: both pages return 400 when an id is missing, else
\* the Softr page awaits the record call and the detail page the order query.
ActionRequest(r, intent, hasIds, orderGid) ==
    /\ req[r].pc = "idle"
    /\ IF intent = "resend"
         THEN IF orderGid = ""
                THEN req' = [req EXCEPT ![r].pc = "done", ![r].intent = intent,
                                        ![r].response = Json(FALSE, 400)]
                ELSE req' = [req EXCEPT ![r].pc = "order", ![r].intent = intent,
                                        ![r].orderGid = orderGid]
         ELSE IF ~hasIds
                THEN req' = [req EXCEPT ![r].pc = "done", ![r].intent = intent,
                                        ![r].orderGid = orderGid,
                                        ![r].response = Json(FALSE, 400)]
                ELSE req' = [req EXCEPT ![r].pc = "record", ![r].intent = intent,
                                        ![r].orderGid = orderGid]
    /\ UNCHANGED <<changeLog, stamps>>

\* await updateSoftrRecord(...) / deleteSoftrRecord(...) resolves; the change
\* log is appended to only when the form named an order.
RecordDone(r) ==
    /\ req[r].pc = "record"
    /\ IF req[r].orderGid # ""
         THEN req' = [req EXCEPT ![r].pc = "read", ![r].applied = TRUE,
                                 ![r].entry = <<EntryOf(req[r].intent, r)>>]
         ELSE req' = [req EXCEPT ![r].pc = "done", ![r].applied = TRUE,
                                 ![r].response = Json(TRUE, 200)]
    /\ UNCHANGED <<changeLog, stamps>>

\* The record call rejects: catch, status 500.
RecordFail(r) ==
    /\ req[r].pc = "record"
    /\ Answer(r, FALSE, 500)
    /\ UNCHANGED <<changeLog, stamps>>

\* The order query resolves, with or without the order.
OrderFetched(r, found) ==
    /\ req[r].pc = "order"
    /\ IF found THEN req' = [req EXCEPT ![r].pc = "webhook"]
       ELSE Answer(r, FALSE, 404)
    /\ UNCHANGED <<changeLog, stamps>>

OrderFail(r) ==
    /\ req[r].pc = "order"
    /\ Answer(r, FALSE, 500)
    /\ UNCHANGED <<changeLog, stamps>>

\* The webhook answers: 502 unless webhookResponse.ok.
WebhookDone(r, ok) ==
    /\ req[r].pc = "webhook"
    /\ IF ok THEN req' = [req EXCEPT ![r].pc = "read", ![r].applied = TRUE,
                                     ![r].entry = <<EntryOf(req[r].intent, r)>>]
       ELSE Answer(r, FALSE, 502)
    /\ UNCHANGED <<changeLog, stamps>>

WebhookFail(r) ==
    /\ req[r].pc = "webhook"
    /\ Answer(r, FALSE, 500)
    /\ UNCHANGED <<changeLog, stamps>>

\* appendChangeLog, first await: the metafield is read, parsed ("[]" when it
\* is absent) and the stamped entry is pushed onto the local list.
ChangeLogRead(r) ==
    /\ req[r].pc = "read"
    /\ stamps' = stamps + 1
    /\ req' = [req EXCEPT ![r].pc = "write",
                          ![r].existing = Append(changeLog,
                                                 Stamped(req[r].entry[1], stamps + 1))]
    /\ UNCHANGED changeLog

\* The read rejects or JSON.parse throws: appendChangeLog rejects, and the
\* caller awaits it inside its try, so its catch answers 500.
ChangeLogReadFail(r) ==
    /\ req[r].pc = "read"
    /\ req' = [req EXCEPT ![r].pc = "done", ![r].log = "threw",
                          ![r].response = Json(FALSE, 500)]
    /\ UNCHANGED <<changeLog, stamps>>

\* appendChangeLog, second await: metafieldsSet stores the local list.
ChangeLogWrite(r) ==
    /\ req[r].pc = "write"
    /\ changeLog' = req[r].existing
    /\ req' = [req EXCEPT ![r].pc = "done", ![r].log = "written",
                          ![r].response = Json(TRUE, 200)]
    /\ UNCHANGED stamps

\* metafieldsSet answers with userErrors: nothing is stored, the errors are
\* logged and appendChangeLog returns normally.
ChangeLogUserErrors(r) ==
    /\ req[r].pc = "write"
    /\ req' = [req EXCEPT ![r].pc = "done", ![r].log = "userErrors",
                          ![r].response = Json(TRUE, 200)]
    /\ UNCHANGED <<changeLog, stamps>>

\* The write rejects: appendChangeLog rejects into the caller's catch.
ChangeLogWriteFail(r) ==
    /\ req[r].pc = "write"
    /\ req' = [req EXCEPT ![r].pc = "done", ![r].log = "threw",
                          ![r].response = Json(FALSE, 500)]
    /\ UNCHANGED <<changeLog, stamps>>

InitAudit ==
    /\ SyncIdle
    /\ SoftrIdle
    /\ LookupIdle
    /\ PureIdle
    /\ WorkflowsIdle
    /\ WidgetIdle
    /\ changeLog \in {<<>>, <<OldEntry>>}
    /\ stamps = 0
    /\ req = [r \in Requests |-> IdleReq]

NextAudit ==
    \/ \E r \in Requests, intent \in Intents, hasIds \in BOOLEAN, orderGid \in OrderGids :
         ActionRequest(r, intent, hasIds, orderGid) /\ UNCHANGED notAudit
    \/ \E r \in Requests : RecordDone(r) /\ UNCHANGED notAudit
    \/ \E r \in Requests : RecordFail(r) /\ UNCHANGED notAudit
    \/ \E r \in Requests, found \in BOOLEAN : OrderFetched(r, found) /\ UNCHANGED notAudit
    \/ \E r \in Requests : OrderFail(r) /\ UNCHANGED notAudit
    \/ \E r \in Requests, ok \in BOOLEAN : WebhookDone(r, ok) /\ UNCHANGED notAudit
    \/ \E r \in Requests : WebhookFail(r) /\ UNCHANGED notAudit
    \/ \E r \in Requests : ChangeLogRead(r) /\ UNCHANGED notAudit
    \/ \E r \in Requests : ChangeLogReadFail(r) /\ UNCHANGED notAudit
    \/ \E r \in Requests : ChangeLogWrite(r) /\ UNCHANGED notAudit
    \/ \E r \in Requests : ChangeLogUserErrors(r) /\ UNCHANGED notAudit
    \/ \E r \in Requests : ChangeLogWriteFail(r) /\ UNCHANGED notAudit

SpecAudit == InitAudit /\ [][NextAudit]_vars

\* ------------------------------------------------------------- getWorkflows
notWorkflows == <<shared, now, cache, store, remote, orphans, locals, history, table0, softr,
                  lookup, pure, audit, widget>>
WorkflowsMaxTime == StartTime + WorkflowsMaxTicks * WorkflowsTickStep
\* What GET /workflows?active=true answers, now or later.
WorkflowLists == {"list1", "list2"}

\* Variant: an entry is served whatever its age.
NeverExpires(entry, t) == entry.data # <<>>
\* workflowsCache.data && Date.now() < workflowsCache.expiresAt
Fresh(entry, t) == entry.data # <<>> /\ t < entry.expiresAt

\* getWorkflows() up to its await: a fresh entry is returned at once, else
\* the remote request is issued.
getWorkflows(c) ==
    /\ wf[c].pc = "idle"
    /\ IF Fresh(workflowsCache, clock)
         THEN wf' = [wf EXCEPT ![c].pc = "done", ![c].madeAt = clock, ![c].known = stores,
                               ![c].out = workflowsCache.data]
         ELSE wf' = [wf EXCEPT ![c].pc = "fetch", ![c].madeAt = clock, ![c].known = stores,
                               ![c].requests = wf[c].requests + 1]
    /\ UNCHANGED <<workflowsCache, clock, stores>>

\* The request resolves: the entry is replaced and stamped with the time of
\* the answer.
WorkflowsFetched(c, list) ==
    /\ wf[c].pc = "fetch"
    /\ workflowsCache' = [data |-> <<list>>, expiresAt |-> clock + CACHE_TTL]
    /\ stores' = stores \cup {[at |-> clock, data |-> list]}
    /\ wf' = [wf EXCEPT ![c].pc = "done", ![c].out = <<list>>]
    /\ UNCHANGED clock

\* n8nFetch rejects (missing configuration, network, status not ok): the
\* assignment is never reached and the call rejects.
WorkflowsFetchFail(c) ==
    /\ wf[c].pc = "fetch"
    /\ wf' = [wf EXCEPT ![c].pc = "done", ![c].failed = TRUE]
    /\ UNCHANGED <<workflowsCache, clock, stores>>

WorkflowsTick ==
    /\ clock + WorkflowsTickStep <= WorkflowsMaxTime
    /\ clock' = clock + WorkflowsTickStep
    /\ UNCHANGED <<workflowsCache, wf, stores>>

InitWorkflows ==
    /\ SyncIdle
    /\ SoftrIdle
    /\ LookupIdle
    /\ PureIdle
    /\ AuditIdle
    /\ WorkflowsIdle
    /\ WidgetIdle

NextWorkflows ==
    \/ \E c \in Fetches : getWorkflows(c) /\ UNCHANGED notWorkflows
    \/ \E c \in Fetches, list \in WorkflowLists :
         WorkflowsFetched(c, list) /\ UNCHANGED notWorkflows
    \/ \E c \in Fetches : WorkflowsFetchFail(c) /\ UNCHANGED notWorkflows
    \/ WorkflowsTick /\ UNCHANGED notWorkflows

SpecWorkflows == InitWorkflows /\ [][NextWorkflows]_vars

\* ----------------------------------------------------------- SoftrFieldValue
notWidget == <<shared, now, cache, store, remote, orphans, locals, history, table0, softr, lookup,
               pure, audit, workflows>>
\* A list of attachments as the component receives it.
Attachments == "attachments"
FieldValues == {Null, "", "abc", Attachments}
Typed == {"", "abc", "abd"}
\* value == null || value === "" || empty list
isEmpty(value) == value \in {Null, ""}
\* !isEmpty && Array.isArray(value) && value[0]?.url
isAttachment(value) == value = Attachments
\* isEmpty ? "" : String(value)
str(value) == IF isEmpty(value) THEN "" ELSE value

\* cancel(): setMode("viewing"); setEditValue("")
Cancelled(u) == [u EXCEPT !.mode = "viewing", !.editValue = ""]

\* A click on the value text, which is rendered in every mode unless the
\* value is an attachment list.
startEditing ==
    /\ ~isAttachment(field.value)
    /\ ui' = IF field.fieldId = <<>> THEN ui
             ELSE [ui EXCEPT !.mode = "editing", !.editValue = str(field.value)]
    /\ UNCHANGED field

\* onChange of the text field, rendered in mode editing.
setEditValue(v) ==
    /\ ui.mode = "editing"
    /\ ui' = [ui EXCEPT !.editValue = v]
    /\ UNCHANGED field

\* The Save button or the Enter key, in mode editing.
handleSave ==
    /\ ui.mode = "editing"
    /\ ui' = IF ui.editValue = str(field.value) THEN Cancelled(ui)
             ELSE [ui EXCEPT !.mode = "confirming"]
    /\ UNCHANGED field

\* The Cancel button or the Escape key in mode editing, and onClose of the
\* popover, which is open in every mode but viewing.
cancel ==
    /\ field.fieldId # <<>>
    /\ ui.mode # "viewing"
    /\ ui' = Cancelled(ui)
    /\ UNCHANGED field

\* The Confirm button, rendered in mode confirming: the update is submitted.
confirmSave ==
    /\ ui.mode = "confirming"
    /\ Len(ui.submitted) < MaxSubmits
    /\ ui' = [ui EXCEPT !.mode = "saving",
                        !.fetcher = [state |-> "submitting", data |-> ui.fetcher.data],
                        !.submitted = Append(@, ui.editValue)]
    /\ UNCHANGED field

\* The Back button, rendered in mode confirming.
backToEditing ==
    /\ ui.mode = "confirming"
    /\ ui' = [ui EXCEPT !.mode = "editing"]
    /\ UNCHANGED field

\* The action answers and the fetcher is idle again; the effect that waits
\* for mode saving, an idle fetcher and data.ok then closes the popover.
FetcherDone(ok) ==
    /\ ui.fetcher.state = "submitting"
    /\ LET done == [ui EXCEPT !.fetcher = [state |-> "idle", data |-> <<ok>>]]
       IN  ui' = IF ui.mode = "saving" /\ ok THEN Cancelled(done) ELSE done
    /\ UNCHANGED field

InitWidget ==
    /\ SyncIdle
    /\ SoftrIdle
    /\ LookupIdle
    /\ PureIdle
    /\ AuditIdle
    /\ WorkflowsIdle
    /\ field \in [value : FieldValues, fieldId : {<<>>, <<"f1">>}]
    /\ ui = Mounted

NextWidget ==
    \/ startEditing /\ UNCHANGED notWidget
    \/ \E v \in Typed : setEditValue(v) /\ UNCHANGED notWidget
    \/ handleSave /\ UNCHANGED notWidget
    \/ cancel /\ UNCHANGED notWidget
    \/ confirmSave /\ UNCHANGED notWidget
    \/ backToEditing /\ UNCHANGED notWidget
    \/ \E ok \in BOOLEAN : FetcherDone(ok) /\ UNCHANGED notWidget

SpecWidget == InitWidget /\ [][NextWidget]_vars

\* ================================================================== claims
Active == {c \in Calls : pc[c] # "idle"}
ActiveIn(p) == {c \in Active : instance[c] = p}

\* A step in which a pass starts, and one in which a pass ends.
Starts(c) == pc[c] = "idle" /\ pc'[c] # "idle"
Ends(c) == pc[c] # "idle" /\ pc'[c] = "idle"

\* C1: at most one sync pass is active at any time in the process; a call that
\* arrives while syncInProgress is set starts nothing (no remote request, no
\* cache read or write is issued), does not raise, and changes neither the
\* guard, the cooldown stamp nor the table.
C1_SingleFlight ==
    /\ [](\A p \in Instances : Cardinality(ActiveIn(p)) <= 1)
    /\ [][\A c \in Calls : syncInProgress[instance[c]] =>
            /\ ~Starts(c)
            /\ (result' = "guard" /\ result # "guard") =>
                 UNCHANGED <<shared, cache, store, orphans, locals>>]_vars
    /\ [](result # "raised")

\* A pass is running and another invocation has returned on the guard.
C1_Witness == Active # {} /\ result = "guard"

\* C2: while now - lastSyncTime < 60000 ms no pass starts and neither
\* syncInProgress nor lastSyncTime changes (a call then returns as a no-op);
\* every pass starts at least 60000 ms after the previous pass ended; and
\* lastSyncTime is written only by the step that ends a pass.
C2_Cooldown ==
    /\ [][\A c \in Calls :
            (~syncInProgress[instance[c]] /\ now - lastSyncTime[instance[c]] < 60000) =>
               /\ ~Starts(c)
               /\ UNCHANGED <<syncInProgress[instance[c]], lastSyncTime[instance[c]]>>]_vars
    /\ [](\A c \in Active : startGap[c] = NoGap \/ startGap[c] >= 60000)
    /\ [][lastSyncTime' # lastSyncTime => \E c \in Calls : Ends(c)]_vars

\* An invocation has returned on the cooldown of an earlier pass.
C2_Witness ==
    /\ result = "cooldown"
    /\ \E c \in Calls :
         /\ lastSyncTime[instance[c]] > 0
         /\ now - lastSyncTime[instance[c]] < 60000
         /\ ~syncInProgress[instance[c]]

\* C7: a pass runs fullBackfill exactly when the table had no row when the
\* pass counted it, incrementalSync otherwise, and never changes the mode
\* once chosen; findMany is issued by the incremental sync only.
C7_ModeSelection ==
    /\ [](\A c \in Calls :
            /\ mode[c] = "full" => \A k \in CacheKeys : startCache[c][k] = <<>>
            /\ mode[c] = "incremental" => \E k \in CacheKeys : startCache[c][k] # <<>>
            /\ pc[c] \in {"fetch", "find", "upsert"} => mode[c] \in {"full", "incremental"}
            /\ pc[c] = "find" => mode[c] = "incremental")
    /\ [][\A c \in Calls : (mode[c] # "none" /\ ~Ends(c)) => mode'[c] = mode[c]]_vars

\* An incremental pass is running on a table that had rows.
C7_Witness ==
    \E c \in Calls : mode[c] = "incremental" /\ pc[c] = "upsert"

\* C10: syncExecutions() never raises, and the guard is set only while a pass
\* is running: the step that ends a pass, on success or on any error, leaves
\* syncInProgress false.
C10_GuardRelease ==
    /\ [](result # "raised")
    /\ [](\A p \in Instances : syncInProgress[p] => ActiveIn(p) # {})
    /\ [][\A c \in Calls : Ends(c) => ~syncInProgress'[instance[c]]]_vars

\* A pass has ended on an error and the guard is free.
C10_Witness ==
    result = "error" /\ Active = {} /\ \A c \in Calls : ~syncInProgress[instance[c]]

\* The row of e's id exists and has e's status.
Key(e) == StringOf(e.id)
SameStatus(table, e) == table[Key(e)] # <<>> /\ table[Key(e)][1].status = e.status
ZeroToSync(table, items) == \A i \in DOMAIN items : SameStatus(table, items[i])

\* The page call c is working on.
PageItems(c) == IF response[c].data = <<>> THEN <<>> ELSE response[c].data[1]

\* The items along the cursor chain of history r from cursor cur on, up to
\* the first page without items or without nextCursor (at most n pages).
RECURSIVE ChainItems(_, _, _)
ChainItems(r, cur, n) ==
    LET idx == IF cur = 0 THEN 1 ELSE cur
        items == IF idx \in DOMAIN r /\ r[idx].data # <<>> THEN r[idx].data[1] ELSE <<>>
    IN  IF n = 0 \/ items = <<>> THEN <<>>
        ELSE IF r[idx].nextCursor = 0 THEN items
        ELSE items \o ChainItems(r, r[idx].nextCursor, n - 1)

\* The number of pages with items on that chain.
RECURSIVE ChainPages(_, _, _)
ChainPages(r, cur, n) ==
    LET idx == IF cur = 0 THEN 1 ELSE cur
        items == IF idx \in DOMAIN r /\ r[idx].data # <<>> THEN r[idx].data[1] ELSE <<>>
    IN  IF n = 0 \/ items = <<>> THEN 0
        ELSE IF r[idx].nextCursor = 0 THEN 1
        ELSE 1 + ChainPages(r, r[idx].nextCursor, n - 1)

\* The spec's example: the table holds {A: success, B: running} when the pass
\* counts it and the remote pages are [B: success, C: success], [A: success],
\* then one more page, unchanged during the pass.
Example(c) ==
    /\ mode[c] = "incremental"
    /\ ~changed[c]
    /\ remote = RemoteThreePages
    /\ startCache[c]["A"] # <<>> /\ startCache[c]["A"][1].status = "success"
    /\ startCache[c]["B"] # <<>> /\ startCache[c]["B"][1].status = "running"
    /\ startCache[c]["C"] = <<>> /\ startCache[c]["D"] = <<>>
IdStatus(items) == {<<items[i].id, items[i].status>> : i \in DOMAIN items}

\* C3: when the page an incremental pass has fetched yields no to-sync item,
\* the pass ends with its next step: no further page is requested and the
\* table is not written.  In the example exactly B and C are upserted and
\* exactly two pages are fetched.
C3_StopCondition ==
    /\ [][\A c \in Calls :
            (pc[c] = "find" /\ pc'[c] # "find" /\ ZeroToSync(cache, PageItems(c)))
               => /\ pc'[c] = "idle"
                  /\ result' \in {"caughtup", "error"}
                  /\ cache' = cache]_vars
    /\ [](\A c \in Calls : Example(c) =>
            /\ fetched[c] <= 2
            /\ IdStatus(applied[c]) \subseteq {<<"B", "success">>, <<"C", "success">>}
            /\ Len(applied[c]) <= 2)
    /\ [][\A c \in Calls : (Example(c) /\ Ends(c) /\ result' # "error")
               => /\ result' = "caughtup"
                  /\ fetched[c] = 2
                  /\ IdStatus(applied[c]) = {<<"B", "success">>, <<"C", "success">>}]_vars

\* The example pass has upserted B and C, fetched the second page and found
\* nothing to sync on it.
C3_Witness ==
    \E c \in Calls :
        /\ Example(c)
        /\ pc[c] = "find"
        /\ fetched[c] = 2
        /\ IdStatus(applied[c]) = {<<"B", "success">>, <<"C", "success">>}
        /\ ZeroToSync(cache, PageItems(c))

\* C4: the items an incremental pass upserts from a page are exactly those
\* whose id has no row or whose status differs from the row's; with none the
\* pass stops; after the batch the pass fetches the next cursor when the page
\* has one and stops when it has none.
C4_Classification ==
    /\ [][\A c \in Calls : (pc[c] = "find" /\ pc'[c] = "upsert") =>
            /\ \A i \in DOMAIN PageItems(c) :
                 (PageItems(c)[i] \in Range(pending'[c])) <=> ~SameStatus(cache, PageItems(c)[i])
            /\ Len(pending'[c]) =
                 Cardinality({i \in DOMAIN PageItems(c) : ~SameStatus(cache, PageItems(c)[i])})]_vars
    /\ [][\A c \in Calls : (pc[c] = "find" /\ Ends(c) /\ result' = "caughtup") =>
            ZeroToSync(cache, PageItems(c))]_vars
    /\ [][\A c \in Calls : (mode[c] = "incremental" /\ Len(applied'[c]) = Len(applied[c]) + 1) =>
            applied'[c][Len(applied'[c])] \in Range(pending[c])]_vars
    /\ [][\A c \in Calls :
            (mode[c] = "incremental" /\ pc[c] = "upsert" /\ pc'[c] # "upsert"
               /\ ~(pc'[c] = "idle" /\ result' = "error"))
            => IF response[c].nextCursor # 0
                 THEN pc'[c] = "fetch" /\ cursor'[c] = response[c].nextCursor
                 ELSE pc'[c] = "idle" /\ result' = "complete"]_vars

\* An incremental pass upserts one item of a page and leaves another one out.
C4_Witness ==
    \E c \in Calls :
        /\ mode[c] = "incremental"
        /\ pc[c] = "upsert"
        /\ applied[c] = <<>>
        /\ Len(pending[c]) = 1
        /\ Len(PageItems(c)) = 2
        /\ PageItems(c)[1] # PageItems(c)[2]

\* The remote history lists executions newest first (by startedAt).
Age == ("iso1" :> 1) @@ ("iso2" :> 2) @@ ("iso3" :> 3) @@ ("iso4" :> 4)
NewestFirst(r) ==
    LET items == ChainItems(r, 0, Len(r))
    IN  \A i, j \in DOMAIN items : i < j => Age[items[i].startedAt] >= Age[items[j].startedAt]

\* C5: when an incremental pass halts on a page without to-sync items, and
\* the remote history is listed newest first and did not change during the
\* pass, every execution on the older pages has a row with its remote status.
C5_CaughtUp ==
    [][\A c \in Calls :
         (pc[c] = "find" /\ Ends(c) /\ result' = "caughtup" /\ ~changed[c]
            /\ NewestFirst(remote))
         => \A e \in Range(ChainItems(remote, response[c].nextCursor, Len(remote))) :
               response[c].nextCursor # 0 => SameStatus(cache', e)]_vars

\* C6: a full backfill that ends without error has fetched the pages of the
\* cursor chain from no cursor up to the first page without items or without
\* nextCursor, has upserted every item of them, and every such id has a row.
C6_BackfillComplete ==
    [][\A c \in Calls : (mode[c] = "full" /\ Ends(c) /\ result' = "complete") =>
         /\ \A e \in seen[c] : cache'[Key(e)] # <<>>
         /\ Range(applied[c]) \cup Range(pending[c]) = seen[c]
         /\ Len(pending[c]) <= 1
         /\ ~changed[c] =>
              /\ seen[c] = Range(ChainItems(remote, 0, Len(remote)))
              /\ Len(applied[c]) + Len(pending[c]) = Len(ChainItems(remote, 0, Len(remote)))
              /\ fetched[c] = ChainPages(remote, 0, Len(remote))]_vars

\* A full backfill is about to finish the third page of a three-page chain.
C6_Witness ==
    \E c \in Calls :
        /\ mode[c] = "full"
        /\ pc[c] = "upsert"
        /\ ~changed[c]
        /\ fetched[c] = 3
        /\ Len(applied[c]) = 3
        /\ Len(pending[c]) = 1
        /\ response[c].nextCursor = 0

\* What the columns of a row are expected to hold for a payload e.
ExpDate(v) == IF v \in {Undef, Null, ""} THEN Null ELSE DateText[v]
ExpOrder(e) ==
    LET o == extractFromExecutionData(e, "orderNumber")
    IN  IF o \in {Undef, Null} THEN Null ELSE StringOf(o)
ExpMode(e) == IF e.mode \in {Undef, Null} THEN Null ELSE e.mode

\* A step in which an upsert of call c resolves, and the payload it applied.
Applies(c) == Len(applied'[c]) = Len(applied[c]) + 1
Applied(c) == applied'[c][Len(applied'[c])]

\* C8: an upsert of a payload whose executionId has a row changes at most
\* orderNumber, status and stoppedAt of that row, to the payload's values;
\* executionId, startedAt, workflowId and mode keep their values whatever the
\* payload holds.  Without a row all seven columns are set from the payload.
\* No other row changes.
C8_UpsertFrame ==
    /\ [][\A k \in CacheKeys : cache[k] # <<>> =>
            /\ cache'[k] # <<>>
            /\ cache'[k][1].executionId = cache[k][1].executionId
            /\ cache'[k][1].startedAt = cache[k][1].startedAt
            /\ cache'[k][1].workflowId = cache[k][1].workflowId
            /\ cache'[k][1].mode = cache[k][1].mode]_vars
    /\ [][\A c \in Calls : Applies(c) =>
            LET e == Applied(c)
                k == StringOf(e.id)
            IN  /\ \A k2 \in CacheKeys \ {k} : cache'[k2] = cache[k2]
                /\ cache'[k] # <<>>
                /\ cache'[k][1].orderNumber = ExpOrder(e)
                /\ cache'[k][1].status = e.status
                /\ cache'[k][1].stoppedAt = ExpDate(e.stoppedAt)
                /\ cache[k] = <<>> =>
                     cache'[k][1] = [executionId |-> k,
                                     orderNumber |-> ExpOrder(e),
                                     workflowId  |-> StringOf(e.workflowId),
                                     status      |-> e.status,
                                     startedAt   |-> ExpDate(e.startedAt),
                                     stoppedAt   |-> ExpDate(e.stoppedAt),
                                     mode        |-> ExpMode(e)]]_vars

\* A row created by one payload was updated by a payload with another
\* startedAt, workflowId and mode, and still holds the first payload's values.
C8_Witness ==
    \E c \in Calls :
        /\ Len(applied[c]) = 2
        /\ applied[c][1].id = applied[c][2].id
        /\ ExpDate(applied[c][1].startedAt) # ExpDate(applied[c][2].startedAt)
        /\ StringOf(applied[c][1].workflowId) # StringOf(applied[c][2].workflowId)
        /\ ExpMode(applied[c][1]) # ExpMode(applied[c][2])
        /\ cache[StringOf(applied[c][1].id)] # <<>>
        /\ cache[StringOf(applied[c][1].id)][1].startedAt = ExpDate(applied[c][1].startedAt)
        /\ cache[StringOf(applied[c][1].id)][1].status = applied[c][2].status

\* C9: applying the payload that was applied last once more leaves the table
\* as it is; applying it with another status (and stoppedAt) changes, in the
\* row, exactly status and stoppedAt, to the payload's values.
C9_Idempotent ==
    [][\A c \in Calls : (Applies(c) /\ Len(applied[c]) >= 1) =>
            LET e == Applied(c)
                e1 == applied[c][Len(applied[c])]
                k == StringOf(e.id)
            IN  /\ e = e1 => cache' = cache
                /\ (e.status # e1.status
                      /\ e = [e1 EXCEPT !.status = e.status, !.stoppedAt = e.stoppedAt])
                   => /\ cache[k] # <<>>
                      /\ cache' = [cache EXCEPT ![k] =
                                     <<[cache[k][1] EXCEPT
                                          !.status = e.status,
                                          !.stoppedAt = ExpDate(e.stoppedAt)]>>]]_vars

\* One payload has been applied twice in a row.
C9_Witness ==
    \E c \in Calls :
        /\ Len(applied[c]) = 2
        /\ applied[c][1] = applied[c][2]
        /\ cache[StringOf(applied[c][1].id)] # <<>>
        /\ cache[StringOf(applied[c][1].id)][1].status = applied[c][1].status

\* ------------------------------------------------------ retry after failure
\* The last settled invocation was a pass that ended on an error, and no
\* pass has started since.
AfterFailure == result = "error" /\ Active = {}

\* C11 as stated: after a pass that ended early on an error the cooldown is
\* cleared together with the guard, so a call made right after the failed
\* pass (before the clock moves on) starts a new pass and is not a no-op.
C11_RetryRightAfter ==
    [][(AfterFailure /\ now = lastEnd) => result' \notin {"guard", "cooldown"}]_vars

\* C11 amended: after a pass that ended early on an error the guard is cleared
\* and the cooldown is started anew at the time of the failure; a call made
\* less than SYNC_COOLDOWN after the failure is a no-op, and a call made
\* SYNC_COOLDOWN or more after it starts a new pass.
C11_RetryAfterCooldown ==
    /\ [](AfterFailure => \A c \in Calls : /\ ~syncInProgress[instance[c]]
                                            /\ lastSyncTime[instance[c]] = lastEnd)
    /\ [][AfterFailure =>
            /\ result' # "guard"
            /\ (result' = "cooldown" => now - lastEnd < SYNC_COOLDOWN)
            /\ ((\E c \in Calls : Starts(c)) => now - lastEnd >= SYNC_COOLDOWN)]_vars

\* A retry is under way: a pass started a full cooldown after a failed one.
C11_Witness ==
    \E c \in Calls : pc[c] = "count" /\ result = "error" /\ startGap[c] >= SYNC_COOLDOWN

\* ------------------------------------------------- append/update-only cache
Present(table) == {k \in DOMAIN table : table[k] # <<>>}

\* C12: across any sequence of sync passes, including passes that end early
\* on an error, the set of executionIds present in the table never shrinks;
\* the step that ends a pass on an error leaves the table as it is (the rows
\* upserted before the error remain, nothing is rolled back).
C12_AppendOnly ==
    /\ [][Present(cache) \subseteq Present(cache')]_vars
    /\ [][\A c \in Calls : (Ends(c) /\ result' = "error") => cache' = cache]_vars

\* A second pass is under way after a pass that wrote two rows and then failed.
C12_Witness ==
    /\ result = "error"
    /\ Cardinality(Present(cache)) = 2
    /\ \E c \in Calls : pc[c] = "find" /\ startCache[c] = cache

\* ------------------------------------------------------- overlapping passes
\* What one pass on its own makes of a table: the pages of the cursor chain
\* in turn, every upsert of a page applied before the next page is asked for.
RECURSIVE ApplyAll(_, _)
ApplyAll(table, items) ==
    IF items = <<>> THEN table ELSE ApplyAll(Upsert(table, Head(items)), Tail(items))

RECURSIVE LonePass(_, _, _, _, _)
LonePass(table, r, cur, m, n) ==
    LET resp == getExecutions(r, cur)
        executions == DataOf(resp)
        batch == IF m = "full" THEN executions ELSE ToSync(table, executions)
        after == ApplyAll(table, batch)
    IN  IF n = 0 \/ Len(executions) = 0 THEN table
        ELSE IF m = "incremental" /\ Len(batch) = 0 THEN table
        ELSE IF resp.nextCursor = 0 THEN after
        ELSE LonePass(after, r, resp.nextCursor, m, n - 1)

SinglePass(table, r) ==
    LonePass(table, r, 0, IF Count(table) = 0 THEN "full" ELSE "incremental", Len(r) + 1)

\* Every instance has run its pass to the end.
AllPassed == Active = {} /\ \A p \in Instances : lastSyncTime[p] > 0

\* C14: when the passes of two process instances, each with its own guard,
\* interleave their upserts over the same unchanged remote history, the table
\* they leave behind is the table a single pass over that history leaves.
C14_OverlapHarmless == [](AllPassed => cache = SinglePass(table0, remote))

\* Two passes of different instances have the same upsert in flight at once.
C14_Witness ==
    \E c1, c2 \in Calls :
        /\ c1 # c2
        /\ instance[c1] # instance[c2]
        /\ pc[c1] = "upsert" /\ pc[c2] = "upsert"
        /\ mode[c1] = "incremental"
        /\ Range(pending[c1]) \cap Range(pending[c2]) # {}

\* ------------------------------------------------------------ key uniqueness
\* An upsert in flight: of the batch of a pass, or left behind by a rejected one.
InFlight == orphans \cup UNION {Range(pending[c]) : c \in {d \in Calls : pc[d] = "upsert"}}

\* C13: in every reachable state the table holds at most one row per
\* executionId (the rows the database holds are the rows of the table by
\* key, one copy each), also when an id is listed on two pages of a pass or
\* twice on a page whose upserts run concurrently; and the table changes only
\* by an upsert in flight, keyed by the executionId it writes.
C13_KeyUnique ==
    /\ [](\A r1 \in BagToSet(store) :
            /\ CopiesIn(r1, store) = 1
            /\ \A r2 \in BagToSet(store) : r1.executionId = r2.executionId => r1 = r2)
    /\ [](store = RowsBag(cache))
    /\ [][store' # store =>
            \E e \in InFlight :
               /\ store' = StoreUpsert(store, e)
               /\ \A r \in BagToSet(store) :
                    r.executionId # StringOf(e.id) => CopiesIn(r, store') = 1]_vars

\* Of two upserts of one id on a page, one has been applied and the other is
\* still in flight.
C13_Witness ==
    \E c \in Calls :
        /\ pc[c] = "upsert"
        /\ Len(applied[c]) = 1
        /\ Len(pending[c]) = 1
        /\ fetched[c] = 1
        /\ applied[c][1].id = pending[c][1].id
        /\ \E r \in BagToSet(store) : r.executionId = StringOf(pending[c][1].id)

\* ----------------------------------------------------- sequential pagination
\* C15: within one pass the request for the next page is issued only by the
\* step in which the last upsert of the page resolves, so that no upsert of
\* the pass is in flight while a page is requested or looked up; every item
\* the pass has upserted has its row, with the item's status, when the table
\* lookup of a later page resolves; and a full backfill has upserted every
\* item of the pages it fetched before it asks for the next one.
C15_Sequential ==
    /\ [](\A c \in Calls : pc[c] \in {"count", "fetch", "find"} => pending[c] = <<>>)
    /\ [][\A c \in Calls : (pc[c] = "upsert" /\ pc'[c] = "fetch") =>
            /\ Len(pending[c]) = 1
            /\ cache' = Upsert(cache, pending[c][1])
            /\ cursor'[c] = response[c].nextCursor]_vars
    /\ [](\A c \in Calls : pc[c] \in {"fetch", "find"} =>
            /\ \A e \in Range(applied[c]) : SameStatus(cache, e)
            /\ mode[c] = "full" => Range(applied[c]) = seen[c])

\* An incremental pass has upserted the two items of its first page and
\* looks up the table for its second page.
C15_Witness ==
    \E c \in Calls :
        /\ mode[c] = "incremental"
        /\ pc[c] = "find"
        /\ fetched[c] = 2
        /\ Len(applied[c]) = 2

\* ========================================================= Softr table cache
\* The transaction of request s is open; it commits; syncSoftrData() of
\* request s ends by an error.
InTx(s) == run[s].work # <<>>
Commits(s) == run[s].pc = "commit" /\ run'[s].pc = "read"
SyncFails(s) == run[s].sync = "running" /\ run'[s].sync \notin {"running", "returned"}

\* The tables a sync writes: the payloads of the detail responses with data.
Payload(tables) == [i \in DOMAIN tables |-> tables[i][1]]

\* The complete image of the remote database in the cache.
NewDb(env) ==
    LET list == IF env.list = <<>> THEN <<>> ELSE env.list[1]
        withData == SelectSeq([i \in DOMAIN list |-> env.detail[list[i]]],
                              LAMBDA d : d # <<>>)
    IN  DbOf(Payload(withData))

\* C16: what is committed in the table/field cache, and so what a concurrent
\* reader (getCachedTables, hasCachedData) observes, is at every moment the
\* complete previous cache or the complete newly fetched schema: the cache
\* changes only by the commit of a transaction, to the whole of what that
\* sync fetched, and a transaction that fails at any step leaves it as it was.
C16_AtomicReplace ==
    /\ [][softrDb' # softrDb =>
            \E s \in Routes : /\ Commits(s)
                              /\ run[s].created = Len(run[s].tables)
                              /\ softrDb' = DbOf(Payload(run[s].tables))]_vars
    /\ [][\A s \in Routes : (InTx(s) /\ ~Commits(s)) => softrDb' = softrDb]_vars
    /\ [](softrDb \in {EmptyDb, OldDb, NewDb(softrEnv)})
    /\ [](\A s \in Routes : run[s].response # <<>> =>
            run[s].response[1].tables \in
               {<<>>, getCachedTables(OldDb), getCachedTables(NewDb(softrEnv))})

\* A request is about to read the cache while the transaction of another one
\* has deleted the three old tables and created the first of the new ones.
C16_Witness ==
    \E s, o \in Routes :
        /\ run[s].pc = "read"
        /\ run[o].pc = "create"
        /\ run[o].created = 1
        /\ softrDb = OldDb
        /\ Cardinality(run[o].work[1].tables) = 1
        /\ NewDb(softrEnv) # OldDb

\* C17: when the detail fetch of a table rejects during syncSoftrData(), no
\* transaction is started and no row of the cache is deleted or inserted by
\* that sync: the step leaves the cache as it is, the sync runs no statement
\* afterwards, and the answer of the route lists the cache as it stands.
C17_FetchFailureKeepsCache ==
    /\ [](\A s \in Routes : run[s].rejected # {} =>
            /\ run[s].pc = "recover"
            /\ run[s].failedAt = "details"
            /\ ~InTx(s))
    /\ [][\A s \in Routes : (run[s].pc = "details" /\ SyncFails(s)) =>
            /\ softrDb' = softrDb
            /\ ~InTx(s) /\ run'[s].work = <<>>
            /\ run'[s].pc \in {"recover", "idle"}]_vars
    /\ [][\A s \in Routes : (run[s].failedAt = "details" /\ run'[s].pc = "idle") =>
            /\ run'[s].response[1].tables \in {<<>>, getCachedTables(softrDb)}
            /\ run'[s].response[1].error = "message"]_vars

\* The detail fetch of one of three tables has rejected after the two others
\* resolved, and the three tables cached before are still there.
C17_Witness ==
    \E s \in Routes :
        /\ run[s].failedAt = "details"
        /\ run[s].pc = "recover"
        /\ Len(run[s].tablesList) = 3
        /\ Cardinality({i \in DOMAIN run[s].detailed : run[s].detailed[i] # <<>>}) = 2
        /\ softrDb = OldDb
        /\ Len(getCachedTables(softrDb)) = 3

\* C18 as stated: a table whose detail fetch failed is left out of the set to
\* write and the other tables are still written, that is, whatever the
\* outcome of a detail fetch, the sync goes on to its transaction.
C18_FailedFiltered ==
    [][\A s \in Routes : run[s].pc = "details" => run'[s].pc \in {"details", "delFields"}]_vars

\* C18 amended: a table whose detail fetch returned nothing is left out of
\* the set to write, and the tables with data are written to the cache in the
\* transaction, in the order of the list; a detail fetch that fails is not
\* filtered: it ends the sync with an error before any transaction.
C18_NullFiltered ==
    /\ [][\A s \in Routes : (run[s].pc \in {"list", "details"} /\ run'[s].pc = "delFields") =>
            LET d == run'[s].detailed
                t == run'[s].tables
            IN  /\ \A i \in DOMAIN t : t[i] # <<>>
                /\ Len(t) = Cardinality({i \in DOMAIN d : d[i] # <<>>})
                /\ \A i \in DOMAIN d : d[i] # <<>> => \E j \in DOMAIN t : t[j] = d[i]
                /\ \A i, j \in DOMAIN t : i < j =>
                     \E a, b \in DOMAIN d : a < b /\ d[a] = t[i] /\ d[b] = t[j]]_vars
    /\ [][\A s \in Routes : Commits(s) =>
            {row.id : row \in softrDb'.tables} =
               {run[s].tables[i][1].id : i \in DOMAIN run[s].tables}]_vars
    /\ [](\A s \in Routes : run[s].rejected # {} => run[s].sync = "raised" /\ ~InTx(s))

\* A sync whose list has three tables, one of them without data, is about to
\* commit the two others.
C18_Witness ==
    \E s \in Routes :
        /\ run[s].pc = "commit"
        /\ Len(run[s].tablesList) = 3
        /\ Len(run[s].tables) = 2
        /\ Cardinality(run[s].work[1].tables) = 2

\* C19: when syncSoftrData() completes, the cache holds exactly the tables
\* whose detail response had data, with exactly their fetched fields, each
\* under its table (nothing of the cache before survives, nothing is merged),
\* and the count returned is the number of tables written.
C19_ExactReplace ==
    /\ [][\A s \in Routes : Commits(s) =>
            LET t == Payload(run[s].tables)
            IN  /\ softrDb' = DbOf(t)
                /\ {row.id : row \in softrDb'.tables} = {t[i].id : i \in DOMAIN t}
                /\ \A f \in softrDb'.fields :
                     \E i \in DOMAIN t : /\ f.tableId = t[i].id
                                         /\ \E j \in DOMAIN FieldsOf(t[i]) :
                                              FieldsOf(t[i])[j].id = f.id
                /\ \A i \in DOMAIN t : \A j \in DOMAIN FieldsOf(t[i]) :
                     \E f \in softrDb'.fields :
                        f.id = FieldsOf(t[i])[j].id /\ f.tableId = t[i].id
                /\ run'[s].sync = "returned"
                /\ run'[s].count = Len(t)
                /\ run'[s].count = Cardinality(softrDb'.tables)]_vars
    /\ [](\A f \in softrDb.fields :
            /\ f.required \in {"true", "false"} /\ f.locked = "false"
            /\ f.type = "NUMBER" => f.defaultValue = "7" /\ f.createdAt = "date1"
            /\ f.type = "SELECT" => f.options = "json(choices)" /\ f.defaultValue = ""
            /\ f.type = "FORMULA" => f.options = Null /\ f.updatedAt = Null)

\* A sync has completed on a cache of three tables: what is cached is the
\* one table of the remote database, none of the three.
C19_Witness ==
    \E s \in Routes :
        /\ run[s].pc = "read"
        /\ run[s].sync = "returned"
        /\ run[s].count = 1
        /\ softrDb = DbOf(<<TableD>>)
        /\ \E o \in Routes : run[o].response # <<>> /\ Len(run[o].response[1].tables) = 3

\* C20 as stated: syncSoftrData() catches every error at its entry point and
\* returns normally, so that no caller observes an exception from it.
C20_NeverRaises == [](\A s \in Routes : run[s].sync # "raised")

\* C20 amended: syncSoftrData() has no handler of its own: every error in it
\* (missing database id, list or detail fetch, transaction) rejects its
\* promise and leaves the cache as it was; it returns only after a commit,
\* with a count.  The loader and the action of the route catch the error and
\* answer normally, with the error message and synced false.
C20_RouteCatches ==
    /\ [][\A s \in Routes : SyncFails(s) =>
            /\ softrDb' = softrDb
            /\ run[s].kind = "action" => run'[s].sync = "raised" /\ run'[s].pc = "recover"
            /\ run[s].kind = "loader" =>
                 run'[s].response = <<[tables |-> <<>>, error |-> "message", synced |-> FALSE]>>]_vars
    /\ [](\A s \in Routes : run[s].sync = "returned" => run[s].count >= 0)
    /\ [][\A s \in Routes : (run[s].sync = "raised" /\ run'[s].pc = "idle") =>
            /\ run'[s].response[1].error = "message"
            /\ run'[s].response[1].synced = FALSE]_vars

\* The transaction of an action failed after its deletes: the sync has
\* raised, and the action is reading the cache for its answer.
C20_Witness ==
    \E s \in Routes :
        /\ run[s].kind = "action"
        /\ run[s].sync = "raised"
        /\ run[s].failedAt = "tx"
        /\ run[s].pc = "recover"
        /\ run[s].created = 1
        /\ softrDb = OldDb

\* ============================================================ field values
\* The keys of an object, in order.
Keys(value) == [i \in DOMAIN value.o |-> value.o[i][1]]

\* C26: resolveFieldValue maps an object that is no array and has a label
\* other than null to that label; a non-empty list whose first element has a
\* url to the list, of the same length, of {url, filename} objects with each
\* element's url and its filename, "Download" where the element has none; and
\* returns every other value (null, undefined, scalars, the empty list, lists
\* of other things, objects without label) as it is.
C26_ValueResolution ==
    (at = "done" /\ arg \in Values) =>
        LET r == ret[1]
            labelled == arg \in ObjectValues /\ \E i \in DOMAIN arg.o :
                           arg.o[i][1] = "label" /\ arg.o[i][2] # Scalar(Null)
            attached == arg \in ArrayValues /\ arg.a # <<>> /\ \E i \in DOMAIN arg.a[1].o :
                           arg.a[1].o[i][1] = "url" /\ arg.a[1].o[i][2] # Scalar("")
        IN  /\ labelled => \E i \in DOMAIN arg.o : arg.o[i] = <<"label", r>>
            /\ attached =>
                 /\ r.kind = "array" /\ Len(r.a) = Len(arg.a)
                 /\ \A i \in DOMAIN r.a :
                      /\ Keys(r.a[i]) = <<"url", "filename">>
                      /\ r.a[i].o[1][2] = Prop(arg.a[i], "url")
                      /\ r.a[i].o[2][2] =
                           IF Prop(arg.a[i], "filename") \in {Scalar(Undef), Scalar("")}
                             THEN Scalar("Download") ELSE Prop(arg.a[i], "filename")
            /\ (~labelled /\ ~attached) => r = arg

\* An attachment list of two, the second without filename, has been resolved.
C26_Witness ==
    /\ at = "done"
    /\ arg = Array(<<Object(<< <<"url", Scalar("u1")>>, <<"filename", Scalar("a.pdf")>> >>),
                     Object(<< <<"url", Scalar("u1")>> >>)>>)
    /\ ret[1].a[2] = Object(<< <<"url", Scalar("u1")>>, <<"filename", Scalar("Download")>> >>)

\* ============================================================ record search
BlankQueries == {Undef, Null, "", "  "}
Started == search.pc = "idle" /\ search'.pc # "idle"

\* The ids of the cached tables that are configured for search and have a
\* field of a configured name; the ids of the tables a call was issued for;
\* the ids of the tables with a group in the result.
EligibleIds(db) ==
    {t.id : t \in {u \in db.tables :
        /\ u.name \in {"Kleurstalen", "Ne DistriService", "Webattelier - lines",
                       "Webattelier - orders"}
        /\ \E f \in db.fields :
             /\ f.tableId = u.id
             /\ f.name = CASE u.name = "Webattelier - lines" -> "OrderID"
                           [] u.name = "Webattelier - orders" -> "ID"
                           [] OTHER -> "orderNumber"}}
PostedIds == {search.posts[i].tableId : i \in DOMAIN search.posts}
ResultIds == {search.result[1][i].tableId : i \in DOMAIN search.result[1]}
HasRecords(id) == softrApi[id].data # <<>> /\ Len(softrApi[id].data[1]) > 0

\* C21: searchSoftrRecords called with an empty, missing or whitespace-only
\* query returns the empty list at once: it has read no cache and issued no
\* remote call, whatever the configuration and the cache.
C21_EmptyQuery ==
    /\ [][(Started /\ search'.query \in BlankQueries) =>
            /\ search'.pc = "done"
            /\ search'.result = << <<>> >>
            /\ ~search'.raised
            /\ search'.reads = 0
            /\ search'.posts = <<>>]_vars
    /\ [](search.query \in BlankQueries =>
            search.pc \in {"idle", "done"} /\ search.reads = 0 /\ search.posts = <<>>)

\* A whitespace-only query has been answered on a populated cache.
C21_Witness ==
    /\ search.pc = "done"
    /\ search.query = "  "
    /\ search.result = << <<>> >>
    /\ softrDb = SearchDb

\* C22 as stated: with a non-empty query and an empty cache,
\* searchSoftrRecords does not raise.
C22_EmptyCacheNeverRaises ==
    [](search.query \notin BlankQueries /\ softrDb = EmptyDb => ~search.raised)

\* C22 amended: with a non-empty query and an empty cache, a search whose
\* database id is configured and whose cache read succeeds returns the empty
\* list at the cache read; it raises when SOFTR_DATABASE_ID is missing (before
\* any cache read) or when the cache read fails.  It issues no search call,
\* and no step of a search starts syncSoftrData or writes the cache.
C22_SearchNeverSyncs ==
    /\ [][(search.pc = "read" /\ search'.pc # "read" /\ softrDb = EmptyDb /\ ~search'.raised) =>
            /\ search'.pc = "done"
            /\ search'.result = << <<>> >>
            /\ search'.posts = <<>>]_vars
    /\ [](softrDb = EmptyDb => search.posts = <<>> /\ search.pc # "fan")
    /\ []((search.raised /\ softrDb = EmptyDb) =>
            \/ softrEnv.databaseId = Undef /\ search.reads = 0
            \/ softrEnv.databaseId # Undef /\ search.reads = 1)
    /\ []((search.query \notin BlankQueries /\ search.pc = "done" /\ softrDb = EmptyDb
           /\ softrEnv.databaseId = Undef) => search.raised)
    /\ [][search' # search => softrDb' = softrDb /\ run' = run]_vars

\* A search for "1001" on an empty cache has returned the empty list after
\* one cache read.
C22_Witness ==
    /\ search.pc = "done"
    /\ search.query = "1001"
    /\ softrDb = EmptyDb
    /\ search.reads = 1
    /\ search.result = << <<>> >>
    /\ ~search.raised

\* C23: a search that gets to its per-table tasks issues exactly one
\* records/search call for each cached table that is configured in
\* TABLE_SEARCH_FIELDS and has a field of a configured name, and no search
\* ever issues a call for another table or a second call for a table.
C23_EligibleOnly ==
    /\ [](PostedIds \subseteq EligibleIds(softrDb))
    /\ [](Len(search.posts) = Cardinality(PostedIds))
    /\ [](search.pc = "fan" => PostedIds = EligibleIds(softrDb))
    /\ [][search.pc = "fan" => search'.posts = search.posts]_vars

\* Of the five cached tables four are configured, and the three that have
\* their search field are being searched.
C23_Witness ==
    /\ search.pc = "fan"
    /\ softrDb = SearchDb
    /\ Len(search.tables) = 4
    /\ PostedIds = {"tA", "tB", "tD"}

\* C24: whichever per-table calls fail, the search returns normally; its
\* result has the group of every table whose call answered with at least one
\* record and no group of a table whose call failed; a failing call leaves
\* the other tasks as they are, in flight or settled.
C24_FailureIsolation ==
    /\ [][(search.pc = "fan" /\ search'.pc = "done") =>
            /\ ~search'.raised
            /\ search'.result # <<>>
            /\ {search'.result[1][i].tableId : i \in DOMAIN search'.result[1]} =
                 {search.tables[i].table.id : i \in
                    {j \in DOMAIN search.settled :
                       /\ search.settled[j].status = "fulfilled"
                       /\ search.tables[j].table.id \in PostedIds
                       /\ HasRecords(search.tables[j].table.id)}}
            /\ \A i \in DOMAIN search'.result[1] :
                 LET g == search'.result[1][i]
                     answer == softrApi[g.tableId].data[1]
                 IN  /\ Len(g.records) = Len(answer)
                     /\ \A k \in DOMAIN answer : g.records[k].id = answer[k].id]_vars
    /\ [][\A i \in DOMAIN search.settled :
            (search.pc = "fan" /\ search.settled[i].status = "pending"
               /\ search'.settled[i].status = "rejected") =>
              /\ search'.pc = "fan"
              /\ search'.waiting = search.waiting \ {i}
              /\ \A j \in DOMAIN search.settled \ {i} : search'.settled[j] = search.settled[j]]_vars

\* The call for one table failed, the call for another found two records:
\* the search has returned that group only.
C24_Witness ==
    /\ search.pc = "done"
    /\ \E i \in DOMAIN search.settled : search.settled[i].status = "rejected"
    /\ search.result # <<>>
    /\ ResultIds = {"tB"}
    /\ Len(search.result[1][1].records) = 2
    /\ HasRecords("tA")

\* C25: every group searchSoftrRecords returns is of a cached table with a
\* field of a configured name and has at least one record; a query that
\* matches no record in one configured table and one record in another
\* returns the group of the second only, with exactly one record.
C25_ResultSet ==
    /\ [](search.result # <<>> =>
            \A i \in DOMAIN search.result[1] :
               /\ search.result[1][i].tableId \in EligibleIds(softrDb)
               /\ Len(search.result[1][i].records) >= 1)
    /\ []((/\ search.pc = "done" /\ search.settled # <<>>
           /\ \A i \in DOMAIN search.settled : search.settled[i].status = "fulfilled"
           /\ softrDb = OldDb
           /\ softrApi["tA"] = NoneFound /\ softrApi["tB"] = OneNoTotal) =>
            /\ Len(search.result[1]) = 1
            /\ search.result[1][1].tableId = "tB"
            /\ Len(search.result[1][1].records) = 1)

\* The search found no record in Kleurstalen and one in Webattelier - orders.
C25_Witness ==
    /\ search.pc = "done"
    /\ search.query = " 1001 "
    /\ softrDb = OldDb
    /\ softrApi["tA"] = NoneFound /\ softrApi["tB"] = OneNoTotal
    /\ \A i \in DOMAIN search.settled : search.settled[i].status = "fulfilled"
    /\ search.result # <<>>
    /\ ResultIds = {"tB"}
    /\ search.result[1][1].total = 1

\* ============================================================ node timeline
\* The loader answers with the node list of the document fetched.
Extracted == at = "fetch" /\ at' = "done" /\ ret'[1].error = Undef

\* Read off the document: the run list keyed by a node name, the names of the
\* workflow nodes with a non-empty run list, and the last run of such a node.
Keyed(doc, name) == {e \in Range(doc.runData[1]) : e.name = name}
RanNames(doc) ==
    IF doc.workflowNodes = <<>> \/ doc.runData = <<>> THEN {}
    ELSE {n.name : n \in {m \in Range(doc.workflowNodes[1]) :
                            \E e \in Keyed(doc, m.name) : e.runs # <<>>}}
Last(doc, name) ==
    LET runs == (CHOOSE e \in Keyed(doc, name) : TRUE).runs IN runs[Len(runs)][1]
StartOf(doc, name) ==
    IF Last(doc, name).startTime = <<>> THEN 0 ELSE Last(doc, name).startTime[1]

\* The entries of the output channels of a run that carry a payload, by
\* channel and position.
Carriers(r) ==
    IF r.main = <<>> THEN {}
    ELSE LET main == r.main[1]
         IN  {p \in UNION {{<<c, i>> : i \in DOMAIN main[c][1]} :
                             c \in {d \in DOMAIN main : main[d] # <<>>}} :
                /\ main[p[1]][1][p[2]] # <<>>
                /\ main[p[1]][1][p[2]][1].json # <<>>}
PayloadAt(r, p) == r.main[1][p[1]][1][p[2]][1].json[1]

\* The document of the example: start times 300, none, 100 and only the
\* first and the third node ran.
ExampleDoc == Document(<<WorkflowNodes>>, RunDataAll(<<RunSlow>>, <<>>, <<RunFast>>), <<>>, <<>>)

\* C27: the node list holds exactly the workflow nodes whose run list is not
\* empty, each once, in ascending order of the last run's startTime, a
\* missing startTime counting as 0; for start times 300, none, 100 of which
\* the second node did not run, the list is the third node, then the first.
C27_TimelineOrder ==
    [][Extracted =>
        LET nodes == ret'[1].nodes
        IN  /\ {nodes[i].name : i \in DOMAIN nodes} = RanNames(arg)
            /\ Len(nodes) = Cardinality(RanNames(arg))
            /\ \A i, j \in DOMAIN nodes :
                 i < j => StartOf(arg, nodes[i].name) <= StartOf(arg, nodes[j].name)
            /\ arg = ExampleDoc =>
                 /\ [i \in DOMAIN nodes |-> nodes[i].name] = <<"Mail", "Webhook">>
                 /\ [i \in DOMAIN nodes |-> nodes[i].startTime] = << <<100>>, <<300>> >>]_vars

\* The node list of the example has been extracted.
C27_Witness ==
    /\ at = "done"
    /\ arg = ExampleDoc
    /\ Len(ret[1].nodes) = 2
    /\ ret[1].nodes[1].startTime = <<100>>
    /\ ret[1].nodes[2].startTime = <<300>>

\* C28: for every node of the list, startTime, executionTime, the error
\* message and the output are those of the last element of its run list.
C28_LastRun ==
    [][Extracted =>
        \A i \in DOMAIN ret'[1].nodes :
            LET n == ret'[1].nodes[i]
                last == Last(arg, n.name)
            IN  /\ n.startTime = last.startTime
                /\ n.executionTime = last.executionTime
                /\ n.error = IF last.error = <<>> THEN <<>> ELSE last.error[1].message
                /\ Len(n.output.items) = Cardinality(Carriers(last))
                /\ \A k \in DOMAIN n.output.items :
                     \E p \in Carriers(last) : PayloadAt(last, p) = n.output.items[k]]_vars

\* A node failed in its first run and succeeded in its second: the summary
\* shows the second.
C28_Witness ==
    /\ at = "done"
    /\ ret[1].error = Undef
    /\ arg.runData # <<>>
    /\ \E e \in Range(arg.runData[1]) : e.name = "Webhook" /\ e.runs = <<RunFailed, RunFast>>
    /\ \E i \in DOMAIN ret[1].nodes :
         /\ ret[1].nodes[i].name = "Webhook"
         /\ ret[1].nodes[i].startTime = <<100>>
         /\ ret[1].nodes[i].executionTime = <<5>>
         /\ ret[1].nodes[i].error = <<>>
         /\ ret[1].nodes[i].output.items = <<PayA>>

\* C29: the output of a node is made of the payloads of the entries of the
\* last run's channels that carry one, in channel order; it is the payload
\* itself when there is exactly one, the list when there are several, and
\* null when there is none.
C29_OutputUnwrap ==
    [][Extracted =>
        \A i \in DOMAIN ret'[1].nodes :
            LET n == ret'[1].nodes[i]
                last == Last(arg, n.name)
                count == Cardinality(Carriers(last))
            IN  /\ Len(n.output.items) = count
                /\ n.output.shape = "single" <=> count = 1
                /\ n.output.shape = "list" <=> count > 1
                /\ n.output.shape = "null" <=> count = 0
                /\ \A k \in DOMAIN n.output.items :
                     \E p \in Carriers(last) : PayloadAt(last, p) = n.output.items[k]
                /\ last = RunSlow[1] => n.output.items = <<PayC, PayB, PayA>>
                /\ last = RunBare[1] => n.output.items = <<PayC>>]_vars

\* One node has a single payload among channels with empty entries, another
\* three payloads in two channels, a third none.
C29_Witness ==
    /\ at = "done"
    /\ ret[1].error = Undef
    /\ Len(ret[1].nodes) = 3
    /\ \E i, j, k \in DOMAIN ret[1].nodes :
         /\ ret[1].nodes[i].output = [shape |-> "single", items |-> <<PayC>>]
         /\ ret[1].nodes[i].startTime = <<>>
         /\ ret[1].nodes[j].output = [shape |-> "list", items |-> <<PayC, PayB, PayA>>]
         /\ ret[1].nodes[k].output = [shape |-> "null", items |-> <<>>]

\* ============================================================ key extraction
\* The items of the run data that define the key, by node, run, channel and
\* position, and the order in which the helper meets them.
Defining(doc, key) ==
    IF doc.runData = <<>> THEN {}
    ELSE LET nodes == doc.runData[1]
             all == UNION {UNION {UNION {{<<n, r, c, i>> :
                       i \in DOMAIN nodes[n].runs[r][1].main[1][c][1]} :
                       c \in {d \in DOMAIN nodes[n].runs[r][1].main[1] :
                                nodes[n].runs[r][1].main[1][d] # <<>>}} :
                       r \in {q \in DOMAIN nodes[n].runs : nodes[n].runs[q][1].main # <<>>}} :
                       n \in DOMAIN nodes}
             ItemAt(p) == nodes[p[1]].runs[p[2]][1].main[1][p[3]][1][p[4]]
         IN  {p \in all : /\ ItemAt(p) # <<>>
                          /\ ItemAt(p)[1].json # <<>>
                          /\ key \in DOMAIN ItemAt(p)[1].json[1]}
ValueAt(doc, p, key) ==
    doc.runData[1][p[1]].runs[p[2]][1].main[1][p[3]][1][p[4]][1].json[1][key]
Earlier(p, q) ==
    \/ p[1] < q[1]
    \/ p[1] = q[1] /\ p[2] < q[2]
    \/ p[1] = q[1] /\ p[2] = q[2] /\ p[3] < q[3]
    \/ p[1] = q[1] /\ p[2] = q[2] /\ p[3] = q[3] /\ p[4] <= q[4]
InTop(doc, key) == doc.customData # <<>> /\ key \in DOMAIN doc.customData[1]
InAnnotation(doc, key) ==
    /\ doc.annotation # <<>>
    /\ doc.annotation[1].customData # <<>>
    /\ key \in DOMAIN doc.annotation[1].customData[1]

\* C30: extractFromExecutionData(doc, key) returns the top-level customData
\* value when the key is defined there; else the annotation's customData
\* value when defined there; else the value of the first item payload that
\* defines the key, going through the nodes in the order of the run map,
\* then the runs, the channels and the items; and null when the key is
\* defined nowhere.
C30_ExtractPriority ==
    (at = "done" /\ arg \in ExtractInputs) =>
        LET doc == arg.doc
            key == arg.key
            found == Defining(doc, key)
        IN  ret[1] =
              IF InTop(doc, key) THEN doc.customData[1][key]
              ELSE IF InAnnotation(doc, key) THEN doc.annotation[1].customData[1][key]
              ELSE IF found # {}
                THEN ValueAt(doc, CHOOSE p \in found : \A q \in found : Earlier(p, q), key)
              ELSE Null

\* The key is in the annotation and in the run data of both nodes, not in the
\* top-level customData: the annotation's value has been returned.
C30_Witness ==
    /\ at = "done"
    /\ arg \in ExtractInputs
    /\ arg.key = "orderNumber"
    /\ arg.doc.customData = <<[email |-> "c@d.nl"]>>
    /\ InAnnotation(arg.doc, "orderNumber")
    /\ Cardinality(Defining(arg.doc, "orderNumber")) > 2
    /\ ret = <<"1003">>

\* The scan of the node outputs meets a part it cannot iterate before any match.
ScanThrows(input) ==
    /\ input.doc # NullDocument
    /\ Get(input.doc.customData, input.key) = Undef
    /\ \/ input.doc.annotation = <<>>
       \/ Get(input.doc.annotation[1].customData, input.key) = Undef
    /\ input.doc.runData # <<>>
    /\ ScanNodes(input.doc.runData[1], input.key) = TypeError

\* C31: extractFromExecutionData never raises: on every document, also a null
\* document and one whose run list, main or channel is of an unexpected type,
\* it returns a value, and it returns null when the document is null or the
\* scan meets the ill-shaped part before any match.
C31_FailSoftExtraction ==
    at = "done" /\ arg \in ExtractInputs \cup IllInputs =>
        /\ ret[1] # TypeError
        /\ arg.doc = NullDocument => ret[1] = Null
        /\ ScanThrows(arg) => ret[1] = Null

C31_Witness ==
    /\ at = "done"
    /\ arg \in IllInputs
    /\ ScanThrows(arg)
    /\ ret = <<Null>>

\* ================================================================ change log
\* C32: when the record update or delete, or the resend webhook, has
\* succeeded and the append to the change log then fails, the action still
\* answers ok: true.
C32_AuditFailureIgnored ==
    \A r \in Requests :
        req[r].pc = "done" /\ req[r].applied /\ req[r].log \in {"threw", "userErrors"} =>
            req[r].response = Json(TRUE, 200)

\* C37: what appendChangeLog stores is the entries it had read, in their
\* order, followed by its one stamped entry; and when two calls for the same
\* order have both completed their write, both entries are in the stored log.
C37_AppendKeepsEntries ==
    /\ [][\A r \in Requests : ChangeLogWrite(r) =>
            /\ Len(changeLog') = Len(req[r].existing)
            /\ changeLog'[Len(changeLog')].request = r]_vars
    /\ [](\A r \in Requests :
            req[r].log = "written" =>
                \E i \in DOMAIN changeLog : changeLog[i].request = r)

\* ======================================================= workflow list cache
\* The stored results a call made at time m finds unexpired.
Unexpired(c) == {s \in wf[c].known : wf[c].madeAt < s.at + CACHE_TTL}

\* C33 as stated: a call made after a result was stored at time t and before
\* t + 5 minutes issues no request and returns the result stored at t.
C33_ReturnsResultStoredAtT ==
    \A c \in Fetches :
        wf[c].pc = "done" =>
            \A s \in Unexpired(c) : wf[c].requests = 0 /\ wf[c].out = <<s.data>>

\* C33: a call made after a result was stored at time t and before t + 5
\* minutes issues no request and returns the entry the cache holds (the
\* result stored at t or one stored after it by a fetch that was in flight);
\* a call made with no stored result or at or after the expiry of all of them
\* issues exactly one request, whose answer replaces the entry with expiry
\* five minutes after the answer; a failed fetch leaves the entry as it was.
C33_WorkflowCache ==
    /\ [](\A c \in Fetches :
            wf[c].pc # "idle" =>
                /\ Unexpired(c) # {} =>
                     /\ wf[c].requests = 0
                     /\ wf[c].pc = "done"
                     /\ \E s \in Unexpired(c) :
                          /\ wf[c].out = <<s.data>>
                          /\ \A k \in wf[c].known : k.at <= s.at
                /\ Unexpired(c) = {} => wf[c].requests = 1)
    /\ [][\A c \in Fetches :
            /\ (wf[c].pc = "fetch" /\ wf'[c].pc = "done" /\ ~wf'[c].failed) =>
                 /\ workflowsCache'.data = wf'[c].out
                 /\ workflowsCache'.expiresAt = clock + CACHE_TTL
            /\ (wf[c].pc = "fetch" /\ wf'[c].failed) =>
                 /\ UNCHANGED <<workflowsCache, stores>>
                 /\ wf'[c].out = <<>>]_vars

\* A call made between the storing and the expiry was served from the cache
\* and a call made at the expiry has fetched anew.
C33_Witness ==
    \E c, d \in Fetches :
        /\ wf[c].pc = "done"
        /\ wf[c].requests = 0
        /\ \E s \in wf[c].known : s.at < wf[c].madeAt /\ wf[c].madeAt < s.at + CACHE_TTL
        /\ wf[d].pc = "done"
        /\ wf[d].requests = 1
        /\ \E s \in wf[d].known : wf[d].madeAt = s.at + CACHE_TTL
        /\ workflowsCache.data = wf[d].out

\* ============================================================ table and fields
\* Every field row names a table row that exists.
Linked(db) == \A f \in db.fields : \E t \in db.tables : t.id = f.tableId

\* C34: in what is committed, and in the working copy of a transaction, every
\* SoftrField row references a SoftrTable row that exists; a create statement
\* of syncSoftrData adds one table and fields of that table only; and after
\* the tables are deleted no field is left.
C34_NoOrphanFields ==
    /\ [](/\ Linked(softrDb)
          /\ \A s \in Routes : run[s].work # <<>> => Linked(run[s].work[1]))
    /\ [][\A s \in Routes :
            /\ (run[s].pc = "create" /\ run'[s].created = run[s].created + 1) =>
                 LET tables == run'[s].work[1].tables \ run[s].work[1].tables
                     fields == run'[s].work[1].fields \ run[s].work[1].fields
                 IN  /\ Cardinality(tables) = 1
                     /\ \A f \in fields : \E t \in tables : f.tableId = t.id
            /\ (run[s].pc = "delTables" /\ run'[s].pc \in {"create", "commit"}) =>
                 run'[s].work[1] = EmptyDb]_vars

\* A sync of this behaviour has committed tables with their fields over a
\* cache that held other rows.
C34_Witness ==
    \E s \in Routes :
        /\ run[s].sync = "returned"
        /\ Cardinality(softrDb.tables) >= 2
        /\ Cardinality(softrDb.fields) >= 2
        /\ softrDb # OldDb

\* ================================================================== backfill
\* C35: no row is ever deleted, and a pass whose count resolves when the
\* table holds at least one row selects incremental sync; so after any pass
\* has written a row, also a full backfill that ended on an error, no later
\* pass is a full backfill.
C35_BackfillOnce ==
    /\ [][\A k \in CacheKeys : cache[k] # <<>> => cache'[k] # <<>>]_vars
    /\ [][\A c \in Calls :
            (pc[c] = "count" /\ mode'[c] # "none" /\ Count(cache) > 0) =>
                mode'[c] = "incremental"]_vars
    /\ [](\A c \in Calls : mode[c] = "full" => startCache[c] = EmptyCache)

\* The table was empty at first, so the rows it holds were written by the one
\* pass that ended before, which ended on an error and left an execution of
\* the next page without a row; the pass now running is incremental.
C35_Witness ==
    \E c \in Calls :
        /\ mode[c] = "incremental"
        /\ result = "error"
        /\ Count(cache) > 0
        /\ \E i \in DOMAIN remote :
             \E j \in DOMAIN DataOf(remote[i]) :
                 cache[StringOf(DataOf(remote[i])[j].id)] = <<>>

\* ============================================================== termination
\* C36: when every awaited call settles, a started pass ends and the guard of
\* its instance is released; a full backfill over a remote history that does
\* not change fetches no more pages with data than the history has; and an
\* incremental sync fetches nothing after a page without to-sync items.
C36_PassTerminates ==
    /\ \A c \in Calls : (pc[c] # "idle") ~> (pc[c] = "idle")
    /\ \A p \in Instances : syncInProgress[p] ~> ~syncInProgress[p]
    /\ [](\A c \in Calls :
            mode[c] = "full" =>
                /\ fetched[c] <= Len(remote)
                /\ pc[c] = "fetch" /\ cursor[c] # NoCursor => cursor[c] = fetched[c] + 1)
    /\ [][\A c \in Calls :
            (/\ pc[c] = "find"
             /\ pc'[c] # "find"
             /\ Len(ToSync(cache, DataOf(response[c]))) = 0) => pc'[c] = "idle"]_vars

\* A backfill over three pages has ended complete and released the guard.
C36_Witness ==
    /\ \A c \in Calls : pc[c] = "idle"
    /\ \A p \in Instances : ~syncInProgress[p]
    /\ result = "complete"
    /\ remote = RemoteThreePages
    /\ Count(cache) = 4

\* ================================================================= auto-sync
\* C38: a loader enters syncSoftrData() only from a hasCachedData() that
\* found no table row, and reads the cache (getCachedTables, or the tables
\* searchSoftrRecords runs on) only after hasCachedData() said true or its
\* sync returned; with rows in the cache a request starts no sync; and
\* whatever the interleaving, what the concurrent syncs commit on the empty
\* cache is the complete fetched schema, which is what a request that has
\* synced then reads.
C38_CallerSideAutoSync ==
    /\ [][\A s \in Routes :
            /\ (run[s].pc # "enter" /\ run'[s].pc = "enter") =>
                 /\ run[s].pc = "has"
                 /\ Cardinality(softrDb.tables) = 0
            /\ (run[s].pc = "has" /\ run'[s].pc # "has" /\ Cardinality(softrDb.tables) > 0) =>
                 /\ run'[s].sync = "none"
                 /\ run'[s].pc \in {"read", "idle"}
            /\ (run[s].pc # "read" /\ run'[s].pc = "read") =>
                 \/ run[s].pc = "has" /\ run'[s].sync = "none" /\ run'[s].hasData
                 \/ run[s].pc = "commit" /\ run'[s].sync = "returned"
            /\ Commits(s) => softrDb' = NewDb(softrEnv)
            /\ (/\ run[s].pc = "read"
                /\ run[s].sync = "returned"
                /\ run'[s].response # <<>>
                /\ run'[s].response[1].error = Null) =>
                 run'[s].response[1].tables = getCachedTables(NewDb(softrEnv))]_vars
    /\ [](softrDb \in {EmptyDb, OldDb, NewDb(softrEnv)})
    /\ [](\A s \in Routes : run[s].sync # "none" => ~run[s].hasData)

\* Two requests found the cache empty and both synced: one has answered with
\* the tables, the search of the other has its transaction ready to commit.
C38_Witness ==
    \E s, o \in Routes :
        /\ run[s].response # <<>>
        /\ run[s].response[1].error = Null
        /\ Len(run[s].response[1].tables) >= 2
        /\ run[o].kind = "search"
        /\ run[o].pc = "commit"
        /\ ~run[o].hasData
        /\ hasCachedData(softrDb)
        /\ softrDb = NewDb(softrEnv)

\* ============================================================ field editing
\* What holds of the mode machine: a request is submitted only by the step
\* from confirming to saving, confirming is entered only from editing with a
\* changed value, and nothing is edited for attachments or without fieldId.
Submits == ui'.submitted # ui.submitted
ConfirmedOnly ==
    /\ [][Submits => /\ ui.mode = "confirming"
                     /\ ui'.mode = "saving"
                     /\ ui'.submitted = Append(ui.submitted, ui.editValue)
                     /\ ui.editValue # str(field.value)]_vars
    /\ [][(ui.mode # "confirming" /\ ui'.mode = "confirming") =>
            ui.mode = "editing" /\ ui.editValue # str(field.value)]_vars
    /\ [][(ui.mode = "editing" /\ ui'.mode = "viewing") => ~Submits]_vars
    /\ [](isAttachment(field.value) \/ field.fieldId = <<>> => ui.mode = "viewing")

\* C39: an update request is submitted only by the confirm step taken in mode
\* confirming, which is entered only from editing with a changed value;
\* saving an unchanged value returns to viewing with no request; editing does
\* not start for attachments or without fieldId; and mode saving returns to
\* viewing only when the fetcher is idle with ok = true.
C39_ConfirmedEditsOnly ==
    /\ ConfirmedOnly
    /\ [][(ui.mode = "saving" /\ ui'.mode = "viewing") =>
            ui'.fetcher = [state |-> "idle", data |-> <<TRUE>>]]_vars

====
